---- MODULE Spec2Model ----
(***************************************************************************)
(* Model of the natural-language-to-SQL engine of collabsql/backend:       *)
(* services/premium_nlp_service.py (ContextMemory, PremiumNLPService) and  *)
(* the query_nl route of main.py that calls it.                            *)
(*                                                                         *)
(* Python strings are sequences of one-character strings, so that `in`,    *)
(* startswith, lower() and == are computed and not assumed.  Python None   *)
(* is the one-element sequence <<"None">>, which no text can equal.  A     *)
(* Python dict is a function from field names to values.                   *)
(***************************************************************************)
EXTENDS Integers, Sequences, FiniteSets, TLC

(* ---------------------------------------------------------------------- *)
(* Bounds of the model                                                     *)
(* ---------------------------------------------------------------------- *)
MaxKeys == 2
NumReqs == 2

(* ---------------------------------------------------------------------- *)
(* Python values and string primitives                                     *)
(* ---------------------------------------------------------------------- *)
None == <<"None">>

Truthy(v) == v # None /\ v # <<>>

PyOrSecond(a, b) == IF Truthy(b) THEN b ELSE a

PyOr(a, b) == IF Truthy(a) THEN a ELSE b

UpperChars == <<"A","B","C","D","E","F","G","H","I","J","K","L","M","N","O","P","Q","R","S","T","U","V","W","X","Y","Z">>

LowerChars == <<"a","b","c","d","e","f","g","h","i","j","k","l","m","n","o","p","q","r","s","t","u","v","w","x","y","z">>

(* str.lower() *)
Lower(s) ==
  [i \in 1..Len(s) |->
     IF \E j \in 1..26 : UpperChars[j] = s[i]
     THEN LowerChars[CHOOSE j \in 1..26 : UpperChars[j] = s[i]]
     ELSE s[i]]

Contains(s, sub) ==
  \E i \in 0..(Len(s) - Len(sub)) : SubSeq(s, i + 1, i + Len(sub)) = sub

StartsWith(s, p) == Len(p) <= Len(s) /\ SubSeq(s, 1, Len(p)) = p

LastN(s, n) == SubSeq(s, IF Len(s) > n THEN Len(s) - n + 1 ELSE 1, Len(s))

RECURSIVE Join(_, _)
Join(parts, sep) ==
  IF parts = <<>> THEN <<>>
  ELSE IF Len(parts) = 1 THEN parts[1]
  ELSE parts[1] \o sep \o Join(Tail(parts), sep)

Has(d, f) == f \in DOMAIN d

Get(d, f, default) == IF f \in DOMAIN d THEN d[f] ELSE default

EmptyDict == [f \in {} |-> <<>>]

(* ---------------------------------------------------------------------- *)
(* String literals of the source                                           *)
(* ---------------------------------------------------------------------- *)
sSql == <<"s","q","l">>
sInfo == <<"i","n","f","o">>
sClarification == <<"c","l","a","r","i","f","i","c","a","t","i","o","n">>
sError == <<"e","r","r","o","r">>
sSELECT == <<"S","E","L","E","C","T">>
sWRITE == <<"W","R","I","T","E">>
sExecuting == <<"E","x","e","c","u","t","i","n","g"," ","q","u","e","r","y">>
sWentWrong == <<"S","o","m","e","t","h","i","n","g"," ","w","e","n","t"," ","w","r","o","n","g",".">>
sUnavailable == <<"T","h","e"," ","A","I"," ","a","s","s","i","s","t","a","n","t"," ","i","s"," ","c","u","r","r","e","n","t","l","y"," ","u","n","a","v","a","i","l","a","b","l","e","."," ","P","l","e","a","s","e"," ","c","h","e","c","k"," ","y","o","u","r"," ","G","o","o","g","l","e"," ","C","l","o","u","d"," ","c","o","n","f","i","g","u","r","a","t","i","o","n"," ","o","r"," ","t","r","y"," ","a","g","a","i","n"," ","i","n"," ","a"," ","m","o","m","e","n","t",".">>
sExhausted == <<"A","I"," ","E","n","g","i","n","e"," ","E","x","h","a","u","s","t","e","d"," ","(","L","a","t","e","n","c","y",":"," ","<","l","a","t","e","n","c","y",">","s",")","."," ","A","l","l"," ","k","e","y","s"," ","a","n","d"," ","m","o","d","e","l","s"," ","a","r","e"," ","r","e","a","c","h","i","n","g"," ","l","i","m","i","t","s",".">>
sFlash == <<"g","e","m","i","n","i","-","1",".","5","-","f","l","a","s","h">>
sFlashLatest == <<"g","e","m","i","n","i","-","1",".","5","-","f","l","a","s","h","-","l","a","t","e","s","t">>
sFlash8b == <<"g","e","m","i","n","i","-","1",".","5","-","f","l","a","s","h","-","8","b">>
sGemini15 == <<"g","e","m","i","n","i","-","1",".","5">>
sPASTE == <<"P","A","S","T","E">>
sUser == <<"u","s","e","r">>

RotatableMarks ==
  { <<"4","2","9">>, <<"R","E","S","O","U","R","C","E","_","E","X","H","A","U","S","T","E","D">>, <<"5","0","3">>, <<"5","0","0">>, <<"D","e","a","d","l","i","n","e"," ","E","x","c","e","e","d","e","d">> }

ModelErrorMarks ==
  { <<"4","0","4">>, <<"m","o","d","e","l"," ","n","o","t"," ","f","o","u","n","d">>, <<"n","o","t"," ","f","o","u","n","d"," ","f","o","r"," ","A","P","I"," ","v","e","r","s","i","o","n">> }

(* Messages of the exceptions the standard library raises inside the try   *)
(* block of _llm_process.                                                  *)

(* Placeholders for values the model does not interpret: token counts,     *)
(* wall-clock latency, the terminal steps and Python's repr of a dict.     *)
sSteps == <<"<","s","t","e","p","s",">">>
sReprOfData == <<"<","r","e","p","r","(","d","a","t","a",")",">">>

(* ---------------------------------------------------------------------- *)
(* ContextMemory                                                           *)
(* ---------------------------------------------------------------------- *)
HistoryCap == 10

NewContext ==
  [active_table |-> None, last_query |-> None, last_sql |-> None,
   history |-> <<>>]

GetContextResetting(ctxs, username) ==
  [u \in DOMAIN ctxs \cup {username} |->
     IF u = username THEN NewContext ELSE ctxs[u]]

(* _get_context: the dictionary after the lazy creation of username's entry *)
GetContext(ctxs, username) ==
  IF username \in DOMAIN ctxs THEN ctxs ELSE ctxs @@ (username :> NewContext)

UpdateKeepingOldest(ctxs, username, table, query, sql) ==
  LET c0 == GetContext(ctxs, username)
      ctx == c0[username]
      appended == Append(ctx.history,
                         [query |-> query, sql |-> sql, table |-> table])
  IN  [c0 EXCEPT ![username] =
         [active_table |-> IF Truthy(table) THEN table ELSE ctx.active_table,
          last_query |-> query,
          last_sql |-> sql,
          history |-> IF Len(appended) > HistoryCap
                      THEN SubSeq(appended, 1, HistoryCap) ELSE appended]]

UpdateClearing(ctxs, username, table, query, sql) ==
  LET c0 == GetContext(ctxs, username)
      ctx == c0[username]
      appended == Append(ctx.history,
                         [query |-> query, sql |-> sql, table |-> table])
  IN  [c0 EXCEPT ![username] =
         [active_table |-> table,
          last_query |-> query,
          last_sql |-> sql,
          history |-> IF Len(appended) > HistoryCap
                      THEN LastN(appended, HistoryCap) ELSE appended]]

UpdateShared(ctxs, username, table, query, sql) ==
  LET c0 == GetContext(ctxs, username)
      ctx == c0[username]
      appended == Append(ctx.history,
                         [query |-> query, sql |-> sql, table |-> table])
  IN  [u \in DOMAIN c0 |->
         IF u = username
         THEN [active_table |-> IF Truthy(table) THEN table
                                ELSE ctx.active_table,
               last_query |-> query,
               last_sql |-> sql,
               history |-> IF Len(appended) > HistoryCap
                           THEN LastN(appended, HistoryCap) ELSE appended]
         ELSE [c0[u] EXCEPT !.active_table =
                 IF Truthy(table) THEN table ELSE @]]

UpdateTwice(ctxs, username, table, query, sql) ==
  LET c0 == GetContext(ctxs, username)
      ctx == c0[username]
      entry == [query |-> query, sql |-> sql, table |-> table]
      appended == Append(Append(ctx.history, entry), entry)
  IN  [c0 EXCEPT ![username] =
         [active_table |-> IF Truthy(table) THEN table ELSE ctx.active_table,
          last_query |-> query,
          last_sql |-> sql,
          history |-> IF Len(appended) > HistoryCap
                      THEN LastN(appended, HistoryCap) ELSE appended]]

Update(ctxs, username, table, query, sql) ==
  LET c0 == GetContext(ctxs, username)
      ctx == c0[username]
      appended == Append(ctx.history,
                         [query |-> query, sql |-> sql, table |-> table])
  IN  [c0 EXCEPT ![username] =
         [active_table |-> IF Truthy(table) THEN table ELSE ctx.active_table,
          last_query |-> query,
          last_sql |-> sql,
          history |-> IF Len(appended) > HistoryCap
                      THEN LastN(appended, HistoryCap) ELSE appended]]

GetSummary(ctxs, username) ==
  LET ctx == GetContext(ctxs, username)[username]
      p1 == IF Truthy(ctx.active_table)
            THEN <<<<"A","c","t","i","v","e"," ","t","a","b","l","e",":"," ">> \o ctx.active_table>> ELSE <<>>
      p2 == IF Truthy(ctx.last_query)
            THEN <<<<"L","a","s","t"," ","q","u","e","r","y",":"," ">> \o ctx.last_query>> ELSE <<>>
      p3 == IF Truthy(ctx.last_sql)
            THEN <<<<"L","a","s","t"," ","S","Q","L",":"," ">> \o ctx.last_sql>> ELSE <<>>
      parts == p1 \o p2 \o p3
  IN  IF parts # <<>> THEN Join(parts, <<"\n">>) ELSE <<"N","o"," ","p","r","i","o","r"," ","c","o","n","t","e","x","t",".">>

GetActiveTable(ctxs, username) == GetContext(ctxs, username)[username].active_table

(* ---------------------------------------------------------------------- *)
(* Credential pool and provider client                                     *)
(* ---------------------------------------------------------------------- *)
kPaste == <<"P","A","S","T","E","_","Y","O","U","R","_","K","E","Y","_","H","E","R","E">>

(* the i-th usable key: keys are opaque texts, one per position *)
Key(i) == <<"A","I","z","a","S","y","-","k","e","y","-">> \o <<<<"1","2","3","4","5","6","7","8","9">>[i]>>

(* the "keys" lists of api_keys.json, of up to MaxKeys entries: distinct   *)
(* usable keys, the same key twice, and lists that hold the placeholder    *)
(* or a short entry                                                        *)
KeyLists ==
  {[i \in 1..n |-> Key(i)] : n \in 0..MaxKeys}
    \cup {keys \in { <<Key(1), Key(1)>>, <<kPaste, Key(1)>>, <<<<"s","h","o","r","t">>>> } :
            Len(keys) <= MaxKeys}

(* GEMINI_API_KEY *)
EnvKeys == {None, <<"A","I","z","a","S","y","-","k","e","y","-","E">>, kPaste}

Upper(s) ==
  [i \in 1..Len(s) |->
     IF \E j \in 1..26 : LowerChars[j] = s[i]
     THEN UpperChars[CHOOSE j \in 1..26 : LowerChars[j] = s[i]]
     ELSE s[i]]

KeyUsable(k) == Truthy(k) /\ ~Contains(Upper(k), sPASTE) /\ Len(k) > 10

(* _load_api_keys; file is "absent", "corrupt" (open or json.load raises)  *)
(* or "ok" with the list keys under "keys".                                *)
LoadApiKeys(file, keys, env_key) ==
  LET filtered_keys == SelectSeq(keys, KeyUsable)
  IN  IF file = "corrupt" THEN <<>>
      ELSE IF file = "ok" /\ filtered_keys # <<>> THEN filtered_keys
      ELSE IF Truthy(env_key) /\ ~Contains(Upper(env_key), sPASTE)
           THEN <<env_key>>
      ELSE <<>>

NoClient == [kind |-> "none", key |-> None, idx |-> 0]

(* _init_client: the client after the call.  sdk is FALSE when the try     *)
(* block raises (the import of google.genai, or the construction of the    *)
(* client); an index outside the pool raises IndexError there as well.     *)
(* The except clause leaves the client as it was.                          *)
InitClient(keys, index, vertex, sdk, old) ==
  IF ~sdk THEN old
  ELSE IF keys # <<>> /\ index + 1 \notin DOMAIN keys THEN old
  ELSE IF keys # <<>> THEN [kind |-> "key", key |-> keys[index + 1], idx |-> index]
  ELSE IF vertex THEN [kind |-> "vertex", key |-> None, idx |-> 0]
  ELSE old

NextIndexNoWrap(keys, index) == index + 1

NextIndexSkip(keys, index) == (index + 2) % Len(keys)

NextIndex(keys, index) == (index + 1) % Len(keys)

CanRotateNonEmpty(keys) == ~(keys = <<>>)

CanRotate(keys) == ~(keys = <<>> \/ Len(keys) <= 1)

(* _rotate_key: what it returns, and the index and the client after it;    *)
(* built is FALSE when the try block of its _init_client raises            *)
RotateKey(keys, index, vertex, built, cl) ==
  IF ~CanRotate(keys)
  THEN [ok |-> FALSE, index |-> index, client |-> cl]
  ELSE [ok |-> TRUE, index |-> NextIndex(keys, index),
        client |-> InitClient(keys, NextIndex(keys, index), vertex, built, cl)]

(* ---------------------------------------------------------------------- *)
(* ResponseParser: _parse_llm_response                                     *)
(*                                                                         *)
(* The text of a reply is a sequence of segments [k, data]:                *)
(*   "fence_json"  the characters ```json      "fence"  the characters ``` *)
(*   "obj"    the text of one JSON object, data its members                *)
(*   "arr"    the text of one JSON array                                   *)
(*   "delim"  a SQL_QUERY: line and an EXPLANATION: line, data.sql and     *)
(*            data.explanation their contents                              *)
(*   "text"   any other prose                                              *)
(* ---------------------------------------------------------------------- *)
Seg(k, data) == [k |-> k, data |-> data]

FenceKinds == {"fence_json", "fence"}

(* the index of the first segment whose kind is in kinds *)
FirstIdx(text, kinds) ==
  CHOOSE i \in 1..Len(text) :
    text[i].k \in kinds /\ \A j \in 1..(i - 1) : text[j].k \notin kinds

(* text.split(mark, 1)[1].split("```", 1)[0] *)
Fenced(text, mark) ==
  LET rest == SubSeq(text, FirstIdx(text, {mark}) + 1, Len(text))
  IN  IF \E j \in 1..Len(rest) : rest[j].k \in FenceKinds
      THEN SubSeq(rest, 1, FirstIdx(rest, FenceKinds) - 1)
      ELSE rest

StripFences(text) ==
  IF \E i \in 1..Len(text) : text[i].k = "fence_json" THEN Fenced(text, "fence_json")
  ELSE IF \E i \in 1..Len(text) : text[i].k = "fence" THEN Fenced(text, "fence")
  ELSE text

JsonLoadsLenient(text) ==
  IF \E i \in 1..Len(text) : text[i].k = "obj"
  THEN [ok |-> TRUE, isdict |-> TRUE,
        data |-> text[CHOOSE i \in 1..Len(text) : text[i].k = "obj"].data]
  ELSE [ok |-> FALSE, isdict |-> FALSE, data |-> EmptyDict]

(* json.loads succeeds exactly on the text of one JSON value *)
JsonLoads(text) ==
  IF Len(text) = 1 /\ text[1].k \in {"obj", "arr"}
  THEN [ok |-> TRUE, isdict |-> text[1].k = "obj", data |-> text[1].data]
  ELSE [ok |-> FALSE, isdict |-> FALSE, data |-> EmptyDict]

Raised(msg) == [ok |-> FALSE, msg |-> msg, result |-> EmptyDict]

Returned(result) == [ok |-> TRUE, msg |-> <<>>, result |-> result]

UnknownTypeKept(data) ==
  Returned([type |-> data["type"], message |-> Get(data, "message", sReprOfData)])

(* the else branch: result["type"] = "info" *)
UnknownTypeResult(data) ==
  Returned([type |-> sInfo, message |-> Get(data, "message", sReprOfData)])

ParseLLMResponse(raw) ==
  LET loaded == JsonLoads(StripFences(raw))
      data == loaded.data
      resp_type == Get(data, "type", sInfo)
  IN  IF ~loaded.ok THEN Raised(<<"E","x","p","e","c","t","i","n","g"," ","v","a","l","u","e",":"," ","l","i","n","e"," ","1"," ","c","o","l","u","m","n"," ","1"," ","(","c","h","a","r"," ","0",")">>)
      ELSE IF ~loaded.isdict THEN Raised(<<"'","l","i","s","t","'"," ","o","b","j","e","c","t"," ","h","a","s"," ","n","o"," ","a","t","t","r","i","b","u","t","e"," ","'","g","e","t","'">>)
      ELSE IF resp_type = sSql THEN
             IF ~Has(data, "query") THEN Raised(<<"'","q","u","e","r","y","'">>)
             ELSE Returned([type |-> resp_type,
                            query |-> data["query"],
                            queryType |-> Get(data, "queryType", sSELECT),
                            explanation |-> Get(data, "explanation", sExecuting),
                            target_table |-> Get(data, "target_table", None)])
      ELSE IF resp_type = sInfo THEN
             Returned([type |-> resp_type, message |-> Get(data, "message", <<>>)])
      ELSE IF resp_type = sClarification THEN
             Returned([type |-> resp_type, message |-> Get(data, "message", <<"C","o","u","l","d"," ","y","o","u"," ","c","l","a","r","i","f","y","?">>)])
      ELSE IF resp_type = sError THEN
             Returned([type |-> resp_type, message |-> Get(data, "message", sWentWrong)])
      ELSE UnknownTypeResult(data)

(* ---------------------------------------------------------------------- *)
(* PromptBuilder: _build_prompt                                            *)
(* The prompt is the record of the values interpolated into the template.  *)
(* ---------------------------------------------------------------------- *)
HistoryWindow == 6

ContentCut == 300

Tables(schema) == Get(schema, "tables", <<>>)

Columns(table) == Get(table, "columns", <<>>)

(* c['name'], c['type'] or table['name'] raises KeyError *)
SchemaRaises(schema) ==
  \E i \in 1..Len(Tables(schema)) :
     LET table == Tables(schema)[i]
     IN  \/ \E j \in 1..Len(Columns(table)) :
               ~Has(Columns(table)[j], "name") \/ ~Has(Columns(table)[j], "type")
         \/ ~Has(table, "name")

(* msg.get("content", "")[:300] raises TypeError on a null content *)
HistoryRaises(conversation_history) ==
  LET recent == LastN(conversation_history, HistoryWindow)
  IN  \E i \in 1..Len(recent) : Get(recent[i], "content", <<>>) = None

PromptRaises(schema, conversation_history) ==
  SchemaRaises(schema) \/ HistoryRaises(conversation_history)

BuildPrompt(user_query, schema, active_table, conversation_history, ctxs, username) ==
  LET recent == LastN(conversation_history, HistoryWindow)
  IN  [schema_str |->
         [i \in 1..Len(Tables(schema)) |->
            LET table == Tables(schema)[i]
            IN  [name |-> table["name"],
                 rowCount |-> Get(table, "rowCount", <<"?">>),
                 cols |-> [j \in 1..Len(Columns(table)) |->
                             [name |-> Columns(table)[j]["name"],
                              type |-> Columns(table)[j]["type"],
                              pk |-> Truthy(Get(Columns(table)[j], "pk", None)),
                              notnull |-> Truthy(Get(Columns(table)[j], "notnull", None))]]]],
       active_table |-> PyOr(active_table, <<"G","l","o","b","a","l","/","I","m","p","l","i","c","i","t">>),
       context_str |-> GetSummary(ctxs, username),
       conv_str |-> [i \in 1..Len(recent) |->
                       [role |-> Get(recent[i], "role", sUser),
                        content |->
                          LET content == Get(recent[i], "content", <<>>)
                          IN  SubSeq(content, 1,
                                     IF Len(content) < ContentCut
                                     THEN Len(content) ELSE ContentCut)]],
       user_query |-> user_query]

(* ---------------------------------------------------------------------- *)
(* Failure classification of _llm_process                                  *)
(* ---------------------------------------------------------------------- *)
IsRotatableOrModelError(error_msg) ==
  \E err \in RotatableMarks \cup ModelErrorMarks : Contains(error_msg, err)

IsRotatable(error_msg) == \E err \in RotatableMarks : Contains(error_msg, err)

IsModelError(error_msg) == \E err \in ModelErrorMarks : Contains(error_msg, err)

TargetModel(model_name) == IF model_name = sFlash THEN sFlashLatest ELSE model_name

ShouldRotateOffByOne(model_name, error_msg, retry_count, keys) ==
  /\ StartsWith(model_name, sGemini15)
  /\ IsRotatable(error_msg)
  /\ retry_count < Len(keys) - 2

ShouldRotateOneMore(model_name, error_msg, retry_count, keys) ==
  /\ StartsWith(model_name, sGemini15)
  /\ IsRotatable(error_msg)
  /\ retry_count <= Len(keys) - 1

ShouldRotate(model_name, error_msg, retry_count, keys) ==
  /\ StartsWith(model_name, sGemini15)
  /\ IsRotatable(error_msg)
  /\ retry_count < Len(keys) - 1

ShouldFallBackAgain(model_name, error_msg, retry_count, keys) ==
  /\ StartsWith(model_name, sGemini15)
  /\ ~(IsRotatable(error_msg) /\ retry_count < Len(keys) - 1)

ShouldFallBackOnModelError(model_name, error_msg, retry_count, keys) ==
  /\ StartsWith(model_name, sGemini15)
  /\ ~(IsRotatable(error_msg) /\ retry_count < Len(keys) - 1)
  /\ model_name # sFlash8b
  /\ IsModelError(error_msg)

ShouldFallBack(model_name, error_msg, retry_count, keys) ==
  /\ StartsWith(model_name, sGemini15)
  /\ ~(IsRotatable(error_msg) /\ retry_count < Len(keys) - 1)
  /\ model_name # sFlash8b

ExhaustedResult(error_msg) ==
  [type |-> sError, message |-> sExhausted, error_details |-> error_msg]

UnavailableResult ==
  [type |-> sError, message |-> sUnavailable, steps |-> sSteps]

(* del result["steps"] *)
StripSteps(result) == [f \in DOMAIN result \ {"steps"} |-> result[f]]

(* result["usage"], result["latency"], result["steps"] = ... *)
WithMetadata(result) ==
  [f \in DOMAIN result \cup {"usage", "latency", "steps"} |->
     IF f = "usage" THEN <<"<","u","s","a","g","e",">">>
     ELSE IF f = "latency" THEN <<"<","l","a","t","e","n","c","y",">">>
     ELSE IF f = "steps" THEN sSteps
     ELSE result[f]]

(* ---------------------------------------------------------------------- *)
(* LocalFallbackMatcher: _fallback_process and its helpers                 *)
(* ---------------------------------------------------------------------- *)
Spaces == {" ", "\t", "\n", "\r"}

IsSpace(c) == c \in Spaces

Letters == {UpperChars[i] : i \in 1..26} \cup {LowerChars[i] : i \in 1..26}

Digits == {"0", "1", "2", "3", "4", "5", "6", "7", "8", "9"}

(* \w of the regular expressions *)
WordChars == Letters \cup Digits \cup {"_"}

IsWord(c) == c \in WordChars

(* ['"] of the regular expressions *)
IsQuote(c) == c \in {"'", "\""}

Least(S) == CHOOSE x \in S : \A y \in S : x <= y

(* str.strip() *)
Strip(s) ==
  LET keep == {i \in 1..Len(s) : ~IsSpace(s[i])}
  IN  IF keep = {} THEN <<>> ELSE SubSeq(s, Least(keep), Len(s) + 1 - Least({Len(s) + 1 - i : i \in keep}))

(* str.split(): the words of s, as a set *)
Words(s) ==
  {SubSeq(s, a, b) : <<a, b>> \in
     {p \in (1..Len(s)) \X (1..Len(s)) :
        /\ p[1] <= p[2]
        /\ \A k \in p[1]..p[2] : ~IsSpace(s[k])
        /\ (p[1] = 1 \/ IsSpace(s[p[1] - 1]))
        /\ (p[2] = Len(s) \/ IsSpace(s[p[2] + 1]))}}

(* the position just past the longest run of characters of chars that     *)
(* starts at i                                                            *)
RunEnd(s, i, chars) ==
  Least({j \in i..(Len(s) + 1) : j = Len(s) + 1 \/ s[j] \notin chars})

LitAt(s, i, lit) ==
  i + Len(lit) - 1 <= Len(s) /\ SubSeq(s, i, i + Len(lit) - 1) = lit

AnyInNone(kws, s) == FALSE

AnyIn(kws, s) == \E kw \in kws : Contains(s, kw)

NoMatch == [found |-> FALSE, groups |-> <<>>]

Match(groups) == [found |-> TRUE, groups |-> groups]

(* re.search: the match at the leftmost position that has one *)
(* at[i] is the match of the pattern at position i                         *)
Search(at) ==
  LET hits == {i \in DOMAIN at : at[i].found}
  IN  IF hits = {} THEN NoMatch ELSE at[Least(hits)]

(* <word>\s+with\s+["']?([a-zA-Z]+)["']? at position i *)
AffixAt(s, i, word) ==
  LET a == i + Len(word)
      b == RunEnd(s, a, Spaces)
      c == b + 4
      d == RunEnd(s, c, Spaces)
      e == IF d <= Len(s) /\ IsQuote(s[d]) THEN d + 1 ELSE d
      f == RunEnd(s, e, Letters)
  IN  IF /\ LitAt(s, i, word) /\ b > a /\ LitAt(s, b, <<"w","i","t","h">>)
         /\ d > c /\ f > e
      THEN Match(<<SubSeq(s, e, f - 1)>>)
      ELSE NoMatch

(* an alternation of words: at[w] is the match of the pattern with word w *)
AnyWordAt(at) ==
  IF \E w \in DOMAIN at : at[w].found
  THEN at[CHOOSE w \in DOMAIN at : at[w].found]
  ELSE NoMatch

(* (?:starts?|starting)\s+with\s+["']?([a-zA-Z]+)["']? *)
StartsAt(s, i) == AnyWordAt([w \in {<<"s","t","a","r","t","s">>, <<"s","t","a","r","t">>, <<"s","t","a","r","t","i","n","g">>} |-> AffixAt(s, i, w)])

(* (?:ends?|ending)\s+with\s+["']?([a-zA-Z]+)["']? *)
EndsAt(s, i) == AnyWordAt([w \in {<<"e","n","d","s">>, <<"e","n","d">>, <<"e","n","d","i","n","g">>} |-> AffixAt(s, i, w)])

CountAt(s, i, word) ==
  LET a == i + Len(word)
      b == RunEnd(s, a, Spaces)
      c == RunEnd(s, b, Digits)
  IN  IF LitAt(s, i, word) /\ b > a /\ c > b
      THEN Match(<<SubSeq(s, b, c - 1)>>)
      ELSE NoMatch

(* (?:top|limit|first)\s+(\d+) *)
LimitAt(s, i) == AnyWordAt([w \in {<<"t","o","p">>, <<"l","i","m","i","t">>, <<"f","i","r","s","t">>} |-> CountAt(s, i, w)])

(* after group 1 of the first update pattern:                              *)
(*   \s+['"](\w+)['"]\s+(?:to|as)\s+['"]?(\w+)['"]?                        *)
QuotedRest(s, k) ==
  LET b == RunEnd(s, k, Spaces)
      c == RunEnd(s, b + 1, WordChars)
      d == RunEnd(s, c + 1, Spaces)
      e == d + 2
      f == RunEnd(s, e, Spaces)
      g == IF f <= Len(s) /\ IsQuote(s[f]) THEN f + 1 ELSE f
      h == RunEnd(s, g, WordChars)
  IN  IF /\ k <= Len(s) /\ b > k /\ b <= Len(s) /\ IsQuote(s[b])
         /\ c > b + 1 /\ c <= Len(s) /\ IsQuote(s[c])
         /\ d > c + 1 /\ (LitAt(s, d, <<"t","o">>) \/ LitAt(s, d, <<"a","s">>))
         /\ f > e /\ h > g
      THEN Match(<<SubSeq(s, b + 1, c - 1), SubSeq(s, g, h - 1)>>)
      ELSE NoMatch

(* after group 1 of the second update pattern:                             *)
(*   \s+of\s+(\w+)\s+(?:as|to)\s+(\w+)                                     *)
OfRest(s, k) ==
  LET b == RunEnd(s, k, Spaces)
      c == b + 2
      d == RunEnd(s, c, Spaces)
      e == RunEnd(s, d, WordChars)
      f == RunEnd(s, e, Spaces)
      g == f + 2
      h == RunEnd(s, g, Spaces)
      m == RunEnd(s, h, WordChars)
  IN  IF /\ k <= Len(s) /\ b > k /\ LitAt(s, b, <<"o","f">>)
         /\ d > c /\ e > d
         /\ f > e /\ (LitAt(s, f, <<"a","s">>) \/ LitAt(s, f, <<"t","o">>))
         /\ h > g /\ m > h
      THEN Match(<<SubSeq(s, d, e - 1), SubSeq(s, h, m - 1)>>)
      ELSE NoMatch

(* update\s+(\w[\w\s]*?)<rest> at position i: group 1 is the shortest      *)
(* text of word and space characters after which the rest matches          *)
UpdateAt(s, i, quoted) ==
  LET Rest(k) == IF quoted THEN QuotedRest(s, k) ELSE OfRest(s, k)
      a == i + 6
      p == RunEnd(s, a, Spaces)
      ends == {j \in p..Len(s) :
                 /\ \A k \in p..j : IsWord(s[k]) \/ IsSpace(s[k])
                 /\ Rest(j + 1).found}
  IN  IF /\ LitAt(s, i, <<"u","p","d","a","t","e">>) /\ p > a /\ p <= Len(s) /\ IsWord(s[p])
         /\ ends # {}
      THEN Match(<<SubSeq(s, p, Least(ends))>> \o Rest(Least(ends) + 1).groups)
      ELSE NoMatch

FindNameColFirst(col_names) == IF col_names # <<>> THEN col_names[1] ELSE None

FindNameCol(col_names) ==
  LET exact(c) == Lower(c) = <<"f","i","r","s","t","_","n","a","m","e">> \/ Lower(c) = <<"n","a","m","e">>
      partial(c) == Contains(Lower(c), <<"n","a","m","e">>) \/ Contains(Lower(c), <<"f","i","r","s","t">>)
  IN  IF (\E i \in DOMAIN col_names : exact(col_names[i])) THEN col_names[Least({i \in DOMAIN col_names : exact(col_names[i])})]
      ELSE IF (\E i \in DOMAIN col_names : partial(col_names[i])) THEN col_names[Least({i \in DOMAIN col_names : partial(col_names[i])})]
      ELSE IF col_names # <<>> THEN col_names[1] ELSE None

MatchColumn(phrase, col_names) ==
  LET lowered == Lower(phrase)
      phrase_lower == [i \in 1..Len(lowered) |->
                         IF lowered[i] = " " THEN "_" ELSE lowered[i]]
      exact(c) == Lower(c) = phrase_lower
      partial(c) == Contains(Lower(c), phrase_lower) \/ Contains(phrase_lower, Lower(c))
      words(c) == \A w \in Words(Lower(phrase)) : Contains(Lower(c), w)
  IN  IF (\E i \in DOMAIN col_names : exact(col_names[i])) THEN col_names[Least({i \in DOMAIN col_names : exact(col_names[i])})]
      ELSE IF (\E i \in DOMAIN col_names : partial(col_names[i])) THEN col_names[Least({i \in DOMAIN col_names : partial(col_names[i])})]
      ELSE IF (\E i \in DOMAIN col_names : words(col_names[i])) THEN col_names[Least({i \in DOMAIN col_names : words(col_names[i])})]
      ELSE None

Answers ==
  << <<<<"p","r","i","m","a","r","y"," ","k","e","y">>, <<"A"," ","P","R","I","M","A","R","Y"," ","K","E","Y"," ","u","n","i","q","u","e","l","y"," ","i","d","e","n","t","i","f","i","e","s"," ","e","a","c","h"," ","r","o","w"," ","i","n"," ","a"," ","t","a","b","l","e","."," ","I","t"," ","m","u","s","t"," ","b","e"," ","u","n","i","q","u","e"," ","a","n","d"," ","c","a","n","n","o","t"," ","b","e"," ","N","U","L","L","."," ","E","a","c","h"," ","t","a","b","l","e"," ","c","a","n"," ","h","a","v","e"," ","o","n","l","y"," ","o","n","e"," ","p","r","i","m","a","r","y"," ","k","e","y",".">>>>,
     <<<<"f","o","r","e","i","g","n"," ","k","e","y">>, <<"A"," ","F","O","R","E","I","G","N"," ","K","E","Y"," ","c","r","e","a","t","e","s"," ","a"," ","l","i","n","k"," ","b","e","t","w","e","e","n"," ","t","w","o"," ","t","a","b","l","e","s"," ","b","y"," ","r","e","f","e","r","e","n","c","i","n","g"," ","t","h","e"," ","p","r","i","m","a","r","y"," ","k","e","y"," ","o","f"," ","a","n","o","t","h","e","r"," ","t","a","b","l","e",","," ","e","n","f","o","r","c","i","n","g"," ","r","e","f","e","r","e","n","t","i","a","l"," ","i","n","t","e","g","r","i","t","y",".">>>>,
     <<<<"i","n","d","e","x">>, <<"A","n"," ","I","N","D","E","X"," ","s","p","e","e","d","s"," ","u","p"," ","d","a","t","a"," ","r","e","t","r","i","e","v","a","l"," ","b","y"," ","c","r","e","a","t","i","n","g"," ","a"," ","q","u","i","c","k"," ","l","o","o","k","u","p"," ","s","t","r","u","c","t","u","r","e",","," ","s","i","m","i","l","a","r"," ","t","o"," ","a"," ","b","o","o","k","'","s"," ","i","n","d","e","x","."," ","I","t"," ","i","m","p","r","o","v","e","s"," ","S","E","L","E","C","T"," ","p","e","r","f","o","r","m","a","n","c","e"," ","b","u","t"," ","a","d","d","s"," ","o","v","e","r","h","e","a","d"," ","t","o"," ","I","N","S","E","R","T","/","U","P","D","A","T","E","/","D","E","L","E","T","E",".">>>>,
     <<<<"n","o","r","m","a","l","i","z","a","t","i","o","n">>, <<"N","o","r","m","a","l","i","z","a","t","i","o","n"," ","o","r","g","a","n","i","z","e","s"," ","d","a","t","a"," ","t","o"," ","m","i","n","i","m","i","z","e"," ","r","e","d","u","n","d","a","n","c","y","."," ","C","o","m","m","o","n"," ","f","o","r","m","s",":"," ","1","N","F"," ","(","a","t","o","m","i","c"," ","v","a","l","u","e","s",")",","," ","2","N","F"," ","(","n","o"," ","p","a","r","t","i","a","l"," ","d","e","p","e","n","d","e","n","c","i","e","s",")",","," ","3","N","F"," ","(","n","o"," ","t","r","a","n","s","i","t","i","v","e"," ","d","e","p","e","n","d","e","n","c","i","e","s",")",".">>>>,
     <<<<"j","o","i","n">>, <<"A"," ","J","O","I","N"," ","c","o","m","b","i","n","e","s"," ","r","o","w","s"," ","f","r","o","m"," ","m","u","l","t","i","p","l","e"," ","t","a","b","l","e","s","."," ","T","y","p","e","s",":"," ","I","N","N","E","R"," ","J","O","I","N"," ","(","m","a","t","c","h","i","n","g"," ","r","o","w","s"," ","o","n","l","y",")",","," ","L","E","F","T"," ","J","O","I","N"," ","(","a","l","l"," ","l","e","f","t"," ","+"," ","m","a","t","c","h","i","n","g"," ","r","i","g","h","t",")",","," ","R","I","G","H","T"," ","J","O","I","N",","," ","F","U","L","L"," ","O","U","T","E","R"," ","J","O","I","N",","," ","C","R","O","S","S"," ","J","O","I","N",".">>>>,
     <<<<"c","o","n","s","t","r","a","i","n","t">>, <<"C","o","n","s","t","r","a","i","n","t","s"," ","e","n","f","o","r","c","e"," ","d","a","t","a"," ","r","u","l","e","s",":"," ","P","R","I","M","A","R","Y"," ","K","E","Y",","," ","F","O","R","E","I","G","N"," ","K","E","Y",","," ","U","N","I","Q","U","E",","," ","N","O","T"," ","N","U","L","L",","," ","C","H","E","C","K",","," ","D","E","F","A","U","L","T",".">>>>,
     <<<<"s","q","l">>, <<"S","Q","L"," ","(","S","t","r","u","c","t","u","r","e","d"," ","Q","u","e","r","y"," ","L","a","n","g","u","a","g","e",")"," ","i","s"," ","t","h","e"," ","s","t","a","n","d","a","r","d"," ","l","a","n","g","u","a","g","e"," ","f","o","r"," ","m","a","n","a","g","i","n","g"," ","r","e","l","a","t","i","o","n","a","l"," ","d","a","t","a","b","a","s","e","s","."," ","I","t"," ","i","n","c","l","u","d","e","s"," ","c","o","m","m","a","n","d","s"," ","f","o","r"," ","q","u","e","r","y","i","n","g"," ","(","S","E","L","E","C","T",")",","," ","m","o","d","i","f","y","i","n","g"," ","(","I","N","S","E","R","T","/","U","P","D","A","T","E","/","D","E","L","E","T","E",")",","," ","a","n","d"," ","d","e","f","i","n","i","n","g"," ","d","a","t","a"," ","s","t","r","u","c","t","u","r","e","s"," ","(","C","R","E","A","T","E","/","A","L","T","E","R","/","D","R","O","P",")",".">>>>,
     <<<<"d","a","t","a","b","a","s","e">>, <<"A"," ","d","a","t","a","b","a","s","e"," ","i","s"," ","a","n"," ","o","r","g","a","n","i","z","e","d"," ","c","o","l","l","e","c","t","i","o","n"," ","o","f"," ","s","t","r","u","c","t","u","r","e","d"," ","d","a","t","a"," ","s","t","o","r","e","d"," ","e","l","e","c","t","r","o","n","i","c","a","l","l","y","."," ","R","e","l","a","t","i","o","n","a","l"," ","d","a","t","a","b","a","s","e","s"," ","o","r","g","a","n","i","z","e"," ","d","a","t","a"," ","i","n","t","o"," ","t","a","b","l","e","s"," ","w","i","t","h"," ","r","o","w","s"," ","a","n","d"," ","c","o","l","u","m","n","s",","," ","l","i","n","k","e","d"," ","b","y"," ","k","e","y","s",".">>>>,
     <<<<"a","i">>, <<"A","I"," ","(","A","r","t","i","f","i","c","i","a","l"," ","I","n","t","e","l","l","i","g","e","n","c","e",")"," ","i","s"," ","t","h","e"," ","s","i","m","u","l","a","t","i","o","n"," ","o","f"," ","h","u","m","a","n"," ","i","n","t","e","l","l","i","g","e","n","c","e"," ","b","y"," ","c","o","m","p","u","t","e","r"," ","s","y","s","t","e","m","s","."," ","I","t"," ","i","n","c","l","u","d","e","s"," ","m","a","c","h","i","n","e"," ","l","e","a","r","n","i","n","g",","," ","n","a","t","u","r","a","l"," ","l","a","n","g","u","a","g","e"," ","p","r","o","c","e","s","s","i","n","g",","," ","a","n","d"," ","c","o","m","p","u","t","e","r"," ","v","i","s","i","o","n","."," ","I","'","m"," ","a","n"," ","A","I"," ","a","s","s","i","s","t","a","n","t"," ","f","o","c","u","s","e","d"," ","o","n"," ","h","e","l","p","i","n","g"," ","y","o","u"," ","w","i","t","h"," ","d","a","t","a","b","a","s","e"," ","q","u","e","r","i","e","s","!">>>>,
     <<<<"m","a","c","h","i","n","e"," ","l","e","a","r","n","i","n","g">>, <<"M","a","c","h","i","n","e"," ","L","e","a","r","n","i","n","g"," ","i","s"," ","a"," ","s","u","b","s","e","t"," ","o","f"," ","A","I"," ","w","h","e","r","e"," ","s","y","s","t","e","m","s"," ","l","e","a","r","n"," ","f","r","o","m"," ","d","a","t","a"," ","t","o"," ","i","m","p","r","o","v","e"," ","p","e","r","f","o","r","m","a","n","c","e"," ","w","i","t","h","o","u","t"," ","e","x","p","l","i","c","i","t"," ","p","r","o","g","r","a","m","m","i","n","g","."," ","C","o","m","m","o","n"," ","t","y","p","e","s",":"," ","s","u","p","e","r","v","i","s","e","d",","," ","u","n","s","u","p","e","r","v","i","s","e","d",","," ","a","n","d"," ","r","e","i","n","f","o","r","c","e","m","e","n","t"," ","l","e","a","r","n","i","n","g",".">>>> >>

InfoResult(message) == [type |-> sInfo, message |-> message]

ClarificationResult(message) == [type |-> sClarification, message |-> message]

SqlResult(query, queryType, explanation) ==
  [type |-> sSql, query |-> query, queryType |-> queryType,
   explanation |-> explanation]

AnswerQuestionFallback(lower) ==
  LET hit(entry) == Contains(lower, entry[1])
  IN  IF (\E i \in DOMAIN Answers : hit(Answers[i]))
      THEN InfoResult(Answers[Least({i \in DOMAIN Answers : hit(Answers[i])})][2])
      ELSE InfoResult(<<"I","'","m"," ","p","r","i","m","a","r","i","l","y"," ","a"," ","d","a","t","a","b","a","s","e"," ","a","s","s","i","s","t","a","n","t",","," ","b","u","t"," ","I","'","l","l"," ","d","o"," ","m","y"," ","b","e","s","t"," ","t","o"," ","h","e","l","p","!"," ","C","o","u","l","d"," ","y","o","u"," ","r","e","p","h","r","a","s","e"," ","y","o","u","r"," ","q","u","e","s","t","i","o","n",","," ","o","r"," ","a","s","k"," ","m","e"," ","a","b","o","u","t"," ","y","o","u","r"," ","d","a","t","a","b","a","s","e"," ","d","a","t","a","?">>)






sQ == <<"\"">>

sA == <<"'">>

(* what a fallback call leaves behind: the exception it raised (None when  *)
(* it returned), the returned result and the contexts after the call       *)
Fell(result, ctxs) == [raised |-> None, result |-> result, ctxs |-> ctxs]

FellRaising(exc, ctxs) == [raised |-> exc, result |-> EmptyDict, ctxs |-> ctxs]

FallbackUpdateUnguarded(lower, target, col_names, ctxs) ==
  LET where_col == FindNameCol(col_names)
      set_col(m) == MatchColumn(Strip(m.groups[1]), col_names)
      usable(m) == m.found /\ Truthy(set_col(m)) /\ Truthy(where_col)
      m1 == Search([i \in 1..Len(lower) |-> UpdateAt(lower, i, TRUE)])
      m2 == Search([i \in 1..Len(lower) |-> UpdateAt(lower, i, FALSE)])
      built(m) ==
        LET col_phrase == Strip(m.groups[1])
            old_val == m.groups[2]
            new_val == m.groups[3]
            sql == <<"U","P","D","A","T","E"," ","\"">> \o target \o <<"\""," ","S","E","T"," ","\"">> \o set_col(m) \o <<"\""," ","="," ","'">>
                     \o new_val \o sA
        IN  Fell(SqlResult(sql, sWRITE,
                           <<"U","p","d","a","t","i","n","g"," ">> \o set_col(m) \o <<" ","t","o"," ","'">> \o new_val
                             \o <<"'"," ","w","h","e","r","e"," ">> \o where_col \o <<" ","="," ","'">> \o old_val \o sA),
                 Update(ctxs, target, <<"u","p","d","a","t","e"," ">> \o col_phrase, sql, None))
  IN  IF usable(m1) THEN built(m1)
      ELSE IF usable(m2) THEN built(m2)
      ELSE Fell(ClarificationResult(<<"P","l","e","a","s","e"," ","s","p","e","c","i","f","y"," ","t","h","e"," ","u","p","d","a","t","e"," ","c","l","e","a","r","l","y","."," ","E","x","a","m","p","l","e",":"," ","u","p","d","a","t","e"," ","L","A","S","T","_","N","A","M","E"," ","o","f"," ","'","J","o","h","n","'"," ","t","o"," ","'","S","m","i","t","h","'">>), ctxs)

FallbackUpdate(lower, target, col_names, ctxs) ==
  LET where_col == FindNameCol(col_names)
      set_col(m) == MatchColumn(Strip(m.groups[1]), col_names)
      usable(m) == m.found /\ Truthy(set_col(m)) /\ Truthy(where_col)
      m1 == Search([i \in 1..Len(lower) |-> UpdateAt(lower, i, TRUE)])
      m2 == Search([i \in 1..Len(lower) |-> UpdateAt(lower, i, FALSE)])
      built(m) ==
        LET col_phrase == Strip(m.groups[1])
            old_val == m.groups[2]
            new_val == m.groups[3]
            sql == <<"U","P","D","A","T","E"," ","\"">> \o target \o <<"\""," ","S","E","T"," ","\"">> \o set_col(m) \o <<"\""," ","="," ","'">>
                     \o new_val \o <<"'"," ","W","H","E","R","E"," ","\"">> \o where_col \o <<"\""," ","="," ","'">>
                     \o old_val \o sA
        IN  Fell(SqlResult(sql, sWRITE,
                           <<"U","p","d","a","t","i","n","g"," ">> \o set_col(m) \o <<" ","t","o"," ","'">> \o new_val
                             \o <<"'"," ","w","h","e","r","e"," ">> \o where_col \o <<" ","="," ","'">> \o old_val \o sA),
                 Update(ctxs, target, <<"u","p","d","a","t","e"," ">> \o col_phrase, sql, None))
  IN  IF usable(m1) THEN built(m1)
      ELSE IF usable(m2) THEN built(m2)
      ELSE Fell(ClarificationResult(<<"P","l","e","a","s","e"," ","s","p","e","c","i","f","y"," ","t","h","e"," ","u","p","d","a","t","e"," ","c","l","e","a","r","l","y","."," ","E","x","a","m","p","l","e",":"," ","u","p","d","a","t","e"," ","L","A","S","T","_","N","A","M","E"," ","o","f"," ","'","J","o","h","n","'"," ","t","o"," ","'","S","m","i","t","h","'">>), ctxs)

(* t["name"], table_obj["columns"] or c["name"] raises KeyError *)
FallbackRaises(schema, target) ==
  \/ \E i \in 1..Len(Tables(schema)) : ~Has(Tables(schema)[i], "name")
  \/ \E i \in 1..Len(Tables(schema)) :
       /\ Tables(schema)[i]["name"] = target
       /\ \A k \in 1..(i - 1) : Tables(schema)[k]["name"] # target
       /\ \/ ~Has(Tables(schema)[i], "columns")
          \/ \E j \in 1..Len(Tables(schema)[i]["columns"]) :
               ~Has(Tables(schema)[i]["columns"][j], "name")

TableNames(schema) ==
  [i \in 1..Len(Tables(schema)) |-> Tables(schema)[i]["name"]]

(* the table the query mentions, else the active table *)
DetectTarget(lower, table_names, active_table) ==
  LET mentioned(t) == Contains(lower, Lower(t))
  IN  IF (\E i \in DOMAIN table_names : mentioned(table_names[i]))
      THEN table_names[Least({i \in DOMAIN table_names : mentioned(table_names[i])})]
      ELSE active_table

ColNames(schema, target) ==
  LET named(t) == t["name"] = target
  IN  IF (\E i \in DOMAIN Tables(schema) : named(Tables(schema)[i]))
      THEN LET cols == Tables(schema)[Least({i \in DOMAIN Tables(schema) : named(Tables(schema)[i])})]["columns"]
           IN  [j \in 1..Len(cols) |-> cols[j]["name"]]
      ELSE <<>>

LimitClause(lower) ==
  IF Search([i \in 1..Len(lower) |-> LimitAt(lower, i)]).found
  THEN <<" ","L","I","M","I","T"," ">> \o Search([i \in 1..Len(lower) |-> LimitAt(lower, i)]).groups[1]
  ELSE <<>>

(* the name prefix / suffix SELECT of lines 515-542 *)
AffixSelect(lower, target, name_col) ==
  LET starts_match == Search([i \in 1..Len(lower) |-> StartsAt(lower, i)])
      ends_match == Search([i \in 1..Len(lower) |-> EndsAt(lower, i)])
      prefix == Upper(starts_match.groups[1])
      suffix == Upper(ends_match.groups[1])
      conditions ==
        (IF starts_match.found
         THEN <<<<"U","P","P","E","R","(","\"">> \o name_col \o <<"\"",")"," ","L","I","K","E"," ","'">> \o prefix \o <<"%","'">>>>
         ELSE <<>>)
        \o (IF ends_match.found
            THEN <<<<"U","P","P","E","R","(","\"">> \o name_col \o <<"\"",")"," ","L","I","K","E"," ","'","%">> \o suffix \o sA>>
            ELSE <<>>)
      explanations ==
        (IF starts_match.found
         THEN <<<<"s","t","a","r","t","s"," ","w","i","t","h"," ","'">> \o prefix \o sA>> ELSE <<>>)
        \o (IF ends_match.found
            THEN <<<<"e","n","d","s"," ","w","i","t","h"," ","'">> \o suffix \o sA>> ELSE <<>>)
      sql == <<"S","E","L","E","C","T"," ","*"," ","F","R","O","M"," ","\"">> \o target \o <<"\""," ","W","H","E","R","E"," ">>
               \o Join(conditions, <<" ","A","N","D"," ">>) \o LimitClause(lower)
  IN  SqlResult(sql, sSELECT,
                <<"F","i","l","t","e","r","i","n","g"," ">> \o target \o <<" ","w","h","e","r","e"," ">> \o name_col \o <<" ">>
                  \o Join(explanations, <<" ","a","n","d"," ">>))

(* the "Enhanced Fallback SELECT" of lines 545-570 *)
DefaultSelect(lower, target, col_names) ==
  LET base == <<"S","E","L","E","C","T"," ","*"," ","F","R","O","M"," ","\"">> \o target \o sQ
      mentioned(col) == Contains(lower, Lower(col))
      ordered ==
        IF /\ \/ Contains(lower, <<" ","b","y"," ">>)
              \/ Contains(lower, <<"o","r","d","e","r"," ","b","y">>)
              \/ Contains(lower, <<"s","o","r","t"," ","b","y">>)
           /\ (\E i \in DOMAIN col_names : mentioned(col_names[i]))
        THEN base \o <<" ","O","R","D","E","R"," ","B","Y"," ","\"">> \o col_names[Least({i \in DOMAIN col_names : mentioned(col_names[i])})] \o sQ
               \o (IF AnyIn({<<"d","e","s","c">>, <<"h","i","g","h">>, <<"t","o","p">>, <<"m","a","x">>, <<"m","o","s","t">>}, lower) THEN <<" ","D","E","S","C">> ELSE <<>>)
        ELSE base
      amount(col) == AnyIn({<<"s","a","l","a","r","y">>, <<"a","m","o","u","n","t">>, <<"p","r","i","c","e">>, <<"w","a","g","e">>, <<"t","o","t","a","l">>}, Lower(col))
      limited ==
        IF Search([i \in 1..Len(lower) |-> LimitAt(lower, i)]).found
        THEN (IF /\ ~Contains(Lower(ordered), <<"o","r","d","e","r"," ","b","y">>)
                 /\ (Contains(lower, <<"t","o","p">>) \/ Contains(lower, <<"h","i","g","h","e","s","t">>))
                 /\ (\E i \in DOMAIN col_names : amount(col_names[i]))
              THEN ordered \o <<" ","O","R","D","E","R"," ","B","Y"," ","\"">> \o col_names[Least({i \in DOMAIN col_names : amount(col_names[i])})]
                     \o <<"\""," ","D","E","S","C">>
              ELSE ordered)
             \o LimitClause(lower)
        ELSE ordered
  IN  SqlResult(limited, sSELECT,
                <<"S","h","o","w","i","n","g"," ","r","e","s","u","l","t","s"," ","f","r","o","m"," ">> \o target \o <<" ","(","F","a","l","l","b","a","c","k"," ","M","o","d","e",")">>)

(* _fallback_process.  self.context.update(target, user_query, sql) binds  *)
(* username := target, table := user_query, query := sql, sql := None.     *)
FallbackProcess(user_query, schema, active_table, ctxs) ==
  LET lower == Strip(Lower(user_query))
      table_names == TableNames(schema)
      detected == DetectTarget(lower, table_names, active_table)
      target == IF ~Truthy(detected) /\ Len(table_names) = 1
                THEN table_names[1] ELSE detected
      col_names == ColNames(schema, target)
      name_col == FindNameCol(col_names)
      recorded(res) == Fell(res, Update(ctxs, target, user_query, res.query, None))
  IN  IF \E i \in 1..Len(Tables(schema)) : ~Has(Tables(schema)[i], "name")
      THEN FellRaising(<<"'","n","a","m","e","'">>, ctxs)
      ELSE IF AnyIn({<<"h","e","l","l","o">>, <<"h","i"," ">>, <<"h","e","y">>, <<"g","o","o","d"," ","m","o","r","n","i","n","g">>, <<"g","o","o","d"," ","e","v","e","n","i","n","g">>}, lower)
      THEN Fell(InfoResult(<<"H","e","l","l","o","!"," ","I","'","m"," ","y","o","u","r"," ","A","I"," ","d","a","t","a","b","a","s","e"," ","a","s","s","i","s","t","a","n","t","."," ","A","s","k"," ","m","e"," ","a","n","y","t","h","i","n","g"," ","a","b","o","u","t"," ","y","o","u","r"," ","d","a","t","a","b","a","s","e"," ","-"," ","I"," ","c","a","n"," ","r","u","n"," ","q","u","e","r","i","e","s",","," ","e","x","p","l","a","i","n"," ","c","o","n","c","e","p","t","s",","," ","a","n","d"," ","h","e","l","p"," ","y","o","u"," ","e","x","p","l","o","r","e"," ","y","o","u","r"," ","d","a","t","a",".">>), ctxs)
      ELSE IF \E p \in {<<"w","h","a","t"," ","i","s">>, <<"w","h","a","t"," ","a","r","e">>, <<"e","x","p","l","a","i","n">>, <<"d","e","f","i","n","e">>, <<"h","o","w"," ","d","o","e","s">>, <<"w","h","y"," ","i","s">>, <<"t","e","l","l"," ","m","e"," ","a","b","o","u","t">>} : StartsWith(lower, p)
      THEN Fell(AnswerQuestionFallback(lower), ctxs)
      ELSE IF AnyIn({<<"w","h","a","t"," ","t","a","b","l","e","s">>, <<"s","h","o","w"," ","t","a","b","l","e","s">>, <<"l","i","s","t"," ","t","a","b","l","e","s">>, <<"w","h","i","c","h"," ","t","a","b","l","e","s">>}, lower)
      THEN Fell(InfoResult(<<"A","v","a","i","l","a","b","l","e"," ","t","a","b","l","e","s",":"," ">> \o Join(table_names, <<","," ">>)), ctxs)
      ELSE IF ~Truthy(target)
      THEN Fell(ClarificationResult(<<"W","h","i","c","h"," ","t","a","b","l","e"," ","w","o","u","l","d"," ","y","o","u"," ","l","i","k","e"," ","t","o"," ","q","u","e","r","y","?"," ","A","v","a","i","l","a","b","l","e",":"," ">>
                                      \o Join(table_names, <<","," ">>)), ctxs)
      ELSE IF FallbackRaises(schema, target)
      THEN FellRaising(IF \E i \in 1..Len(Tables(schema)) :
                             /\ Tables(schema)[i]["name"] = target
                             /\ ~Has(Tables(schema)[i], "columns")
                       THEN <<"'","c","o","l","u","m","n","s","'">> ELSE <<"'","n","a","m","e","'">>, ctxs)
      ELSE IF Contains(lower, <<"u","p","d","a","t","e">>)
      THEN FallbackUpdate(lower, target, col_names, ctxs)
      ELSE IF Contains(lower, <<"d","e","l","e","t","e">>) \/ Contains(lower, <<"r","e","m","o","v","e">>)
      THEN Fell(ClarificationResult(<<"P","l","e","a","s","e"," ","s","p","e","c","i","f","y"," ","w","h","i","c","h"," ","r","e","c","o","r","d","s"," ","t","o"," ","d","e","l","e","t","e","."," ","E","x","a","m","p","l","e",":"," ","d","e","l","e","t","e"," ","f","r","o","m"," ">>
                                      \o target \o <<" ","w","h","e","r","e"," ","E","M","P","L","O","Y","E","E","_","I","D"," ","="," ","5">>), ctxs)
      ELSE IF Contains(lower, <<"c","o","u","n","t">>) \/ Contains(lower, <<"h","o","w"," ","m","a","n","y">>)
      THEN recorded(SqlResult(<<"S","E","L","E","C","T"," ","C","O","U","N","T","(","*",")"," ","a","s"," ","c","o","u","n","t"," ","F","R","O","M"," ","\"">> \o target \o sQ,
                              sSELECT, <<"C","o","u","n","t","i","n","g"," ","r","e","c","o","r","d","s"," ","i","n"," ">> \o target))
      ELSE IF /\ Truthy(name_col)
              /\ (Search([i \in 1..Len(lower) |-> StartsAt(lower, i)]).found \/ Search([i \in 1..Len(lower) |-> EndsAt(lower, i)]).found)
      THEN recorded(AffixSelect(lower, target, name_col))
      ELSE recorded(DefaultSelect(lower, target, col_names))

(* ---------------------------------------------------------------------- *)
(* Inputs: callers' arguments and the provider's outcomes                  *)
(* ---------------------------------------------------------------------- *)
tEmployee == <<"E","M","P","L","O","Y","E","E">>
sqlSelect == <<"S","E","L","E","C","T"," ","*"," ","F","R","O","M"," ","\"","E","M","P","L","O","Y","E","E","\"">>
sqlBadColumn == <<"S","E","L","E","C","T"," ","\"","N","I","C","K","N","A","M","E","\""," ","F","R","O","M"," ","\"","E","M","P","L","O","Y","E","E","\"">>
sqlUpdate == <<"U","P","D","A","T","E"," ","\"","E","M","P","L","O","Y","E","E","\""," ","S","E","T"," ","\"","F","I","R","S","T","_","N","A","M","E","\""," ","="," ","'","S","a","m","'"," ","W","H","E","R","E"," ","\"","I","D","\""," ","="," ","1">>

sqlNull == <<"n","u","l","l">>
sHelloReply == <<"H","e","l","l","o","!"," ","H","o","w"," ","c","a","n"," ","I"," ","h","e","l","p","?">>

Users == {<<"a","l","i","c","e">>}

Queries == {<<"s","h","o","w"," ","e","m","p","l","o","y","e","e","s">>}

SelectedTables == {None, <<"D","E","P","T">>}

Column(name) == [name |-> name, type |-> <<"T","E","X","T">>]

SchemaEmployee ==
  [tables |-> << [name |-> tEmployee,
                  columns |-> <<Column(<<"I","D">>), Column(<<"F","I","R","S","T","_","N","A","M","E">>)>>,
                  rowCount |-> <<"3">>] >>]

(* a cached schema whose table entry lacks "name" *)
SchemaNoName == [tables |-> << [columns |-> <<>>, rowCount |-> <<"0">>] >>]

(* the arguments of a process_query call: each well-formed call, and the   *)
(* call without a selected table with one argument changed: the keyword   *)
(* db_path that query_nl passes, a schema whose table has no name, a       *)
(* conversation history whose entry has a null content                     *)
Args ==
  LET WellFormed ==
        [user_query : Queries, schema : {SchemaEmployee},
         conversation_history : {<<>>}, selected_table : SelectedTables,
         username : Users, db_path_kw : {FALSE}]
      Changed(a) ==
        { [a EXCEPT !.db_path_kw = TRUE],
          [a EXCEPT !.schema = SchemaNoName],
          [a EXCEPT !.conversation_history =
                       << [role |-> sUser, content |-> None] >>] }
  IN  WellFormed
        \cup UNION {Changed(a) : a \in {w \in WellFormed : w.selected_table = None}}

NoArgs ==
  [user_query |-> <<>>, schema |-> EmptyDict, conversation_history |-> <<>>,
   selected_table |-> None, username |-> <<>>, db_path_kw |-> FALSE]

ErrMsgs ==
  { <<"4","2","9"," ","R","E","S","O","U","R","C","E","_","E","X","H","A","U","S","T","E","D">>, <<"5","0","3"," ","U","N","A","V","A","I","L","A","B","L","E">>, <<"5","0","4"," ","D","e","a","d","l","i","n","e"," ","E","x","c","e","e","d","e","d">>,
    <<"4","0","4"," ","N","O","T","_","F","O","U","N","D">>, <<"4","0","0"," ","I","N","V","A","L","I","D","_","A","R","G","U","M","E","N","T">> }

Obj(data) == <<Seg("obj", data)>>

NoneText == <<Seg("none", EmptyDict)>>

ReplySqlBare == Obj([type |-> sSql, query |-> sqlBadColumn])

ReplyInfo == Obj([type |-> sInfo, message |-> sHelloReply])

ReplyUnknownType == Obj([type |-> <<"c","h","a","r","t">>, query |-> sqlSelect])

ReplyDelimited == <<Seg("delim", [sql |-> sqlNull, explanation |-> sHelloReply])>>

(* a sql reply with a write statement and no queryType field *)
ReplyWriteNoType == Obj([type |-> sSql, query |-> sqlUpdate])

(* a JSON object after a sentence of prose, without fences *)
ReplyProse == <<Seg("text", EmptyDict)>> \o ReplyInfo

(* response.text of the provider: JSON objects of each type, with and      *)
(* without their optional fields, fenced, after prose, a JSON array, the   *)
(* delimited text, and None                                                *)
Replies ==
  { Obj([type |-> sSql, query |-> sqlSelect, queryType |-> sSELECT,
         explanation |-> sExecuting, target_table |-> tEmployee]),
    ReplySqlBare,
    Obj([type |-> sSql, query |-> sqlNull, explanation |-> sHelloReply]),
    Obj([type |-> sSql, explanation |-> sHelloReply]),
    ReplyInfo,
    Obj([type |-> sClarification]),
    Obj([type |-> sError, message |-> sWentWrong]),
    ReplyUnknownType,
    <<Seg("text", EmptyDict), Seg("fence_json", EmptyDict)>> \o ReplyInfo
       \o <<Seg("fence", EmptyDict)>>,
    <<Seg("fence", EmptyDict)>> \o ReplySqlBare \o <<Seg("fence", EmptyDict)>>,
    ReplyProse,
    ReplyWriteNoType,
    <<Seg("arr", EmptyDict)>>,
    ReplyDelimited,
    NoneText }

Exc(msg) == [kind |-> "exc", msg |-> msg, raw |-> <<>>]

Text(raw) == [kind |-> "text", msg |-> <<>>, raw |-> raw]

Outcomes == {Exc(m) : m \in ErrMsgs} \cup {Text(raw) : raw \in Replies}

(* what the try block of _llm_process does with the provider's outcome *)
Succeeds(outcome) ==
  outcome.kind = "text" /\ outcome.raw # NoneText /\ ParseLLMResponse(outcome.raw).ok

ErrorMsg(outcome) ==
  IF outcome.kind = "exc" THEN outcome.msg
  ELSE IF outcome.raw = NoneText THEN <<"'","N","o","n","e","T","y","p","e","'"," ","o","b","j","e","c","t"," ","h","a","s"," ","n","o"," ","a","t","t","r","i","b","u","t","e"," ","'","s","t","r","i","p","'">>
  ELSE ParseLLMResponse(outcome.raw).msg

(* ---------------------------------------------------------------------- *)
(* State                                                                   *)
(* ---------------------------------------------------------------------- *)
MaxTurns == 2

MaxCalls == 2 * MaxKeys + 2

Reqs == 1..NumReqs

VARIABLES
  api_keys,           \* PremiumNLPService.api_keys
  current_key_index,  \* PremiumNLPService.current_key_index
  client,             \* PremiumNLPService.client
  sdk_ok,             \* whether the try block of the _init_client call of
                      \* __init__ ran to its end
  vertex_creds,       \* whether credentials_path is set and exists
  user_contexts,      \* ContextMemory.user_contexts
  log_dirs,           \* usernames u whose directory logs/<u> exists
  log_files,          \* contents of logs/<u>/history.json
  turns,              \* number of process_query calls made so far
  pc,                 \* per request: "idle", "awaiting", "done", "raised"
  args,               \* per request: the arguments of process_query
  active_table,       \* per request: local of process_query
  retry_count,        \* per request: parameter of the running _llm_process
  model_name,         \* per request: parameter of the running _llm_process
  raw,                \* per request: local of _llm_process, the reply text
  result,             \* per request: what process_query returned
  raised,             \* per request: the exception process_query raised
  calls,              \* per request: the generate_content calls issued, in
                      \* order; the last one is the call awaited
  user_rows,          \* system table users, by id: email, reset_token set
  database_rows,      \* system table databases, by id: owner_id, and the
                      \* users whose write statements ran on its file
  permission_rows,    \* system table database_permissions
  response,           \* the response of the last route call of main.py
  context_call        \* the last call made on the ContextMemory directly:
                      \* method, username and the value it returned

service == <<api_keys, current_key_index, client, sdk_ok, vertex_creds>>

store == <<user_contexts, log_dirs, log_files>>

frames == <<pc, args, active_table, retry_count, model_name, raw, result,
            raised, calls>>

web == <<user_rows, database_rows, permission_rows, response>>

vars == <<service, store, turns, frames, web, context_call>>

NoCall == [method |-> "", username |-> None, returned |-> None]

(* the system tables after two registrations and one upload: alice (1)    *)
(* and bob (2) are registered, database 1 is owned by alice and has no    *)
(* collaborator; no route has been called                                  *)
SeedUsers ==
  [id \in {1, 2} |->
     [email |-> IF id = 1 THEN "alice@example.com" ELSE "bob@example.com",
      reset_token |-> FALSE]]

SeedDatabases == [id \in {1} |-> [owner_id |-> 1, written_by |-> {}]]

NoResponse ==
  [route |-> "", caller |-> 0, status |-> 0, message |-> <<>>, data |-> {}]

(* The service after __init__, with the contexts ctxs in its ContextMemory *)
Start(ctxs) ==
  /\ \E file \in {"absent", "corrupt", "ok"}, keys \in KeyLists,
        env_key \in EnvKeys :
        api_keys = LoadApiKeys(file, keys, env_key)
  /\ current_key_index = 0
  /\ sdk_ok \in BOOLEAN
  /\ vertex_creds \in BOOLEAN
  /\ client = InitClient(api_keys, 0, vertex_creds, sdk_ok, NoClient)
  /\ user_contexts = ctxs
  /\ log_dirs = {}
  /\ log_files = EmptyDict
  /\ turns = 0
  /\ pc = [r \in Reqs |-> "idle"]
  /\ args = [r \in Reqs |-> NoArgs]
  /\ active_table = [r \in Reqs |-> None]
  /\ retry_count = [r \in Reqs |-> 0]
  /\ model_name = [r \in Reqs |-> <<>>]
  /\ raw = [r \in Reqs |-> <<>>]
  /\ result = [r \in Reqs |-> EmptyDict]
  /\ raised = [r \in Reqs |-> ""]
  /\ calls = [r \in Reqs |-> <<>>]
  /\ user_rows = SeedUsers
  /\ database_rows = SeedDatabases
  /\ permission_rows = {}
  /\ response = NoResponse
  /\ context_call = NoCall

Init == Start(EmptyDict)

(* ---------------------------------------------------------------------- *)
(* _log_query: logs/<username> is created and history.json is read; then   *)
(* building the entry evaluates result.get("latency", 0), and no name      *)
(* `result` exists in _log_query: the NameError is caught by the except    *)
(* clause, so the file is never written.                                   *)
(* ---------------------------------------------------------------------- *)
LogQuery(dirs, files, username) ==
  [dirs |-> dirs \cup {username}, files |-> files]

FinishRecording(r, res, ctxs) ==
  LET logged == LogQuery(log_dirs, log_files, args[r].username)
  IN  /\ user_contexts' = Update(ctxs, args[r].username, None,
                                 args[r].user_query, None)
      /\ log_dirs' = logged.dirs
      /\ log_files' = logged.files
      /\ result' = [result EXCEPT ![r] = StripSteps(res)]
      /\ pc' = [pc EXCEPT ![r] = "done"]

(* The tail of process_query once _llm_process has returned `res`.         *)
Finish(r, res, ctxs) ==
  LET logged == LogQuery(log_dirs, log_files, args[r].username)
  IN  /\ user_contexts' = ctxs
      /\ log_dirs' = logged.dirs
      /\ log_files' = logged.files
      /\ result' = [result EXCEPT ![r] = StripSteps(res)]
      /\ pc' = [pc EXCEPT ![r] = "done"]

(* `await self.client.aio.models.generate_content(...)` in a fresh          *)
(* _llm_process(retry_count = retry, model_name = model), run with the     *)
(* client cl and the contexts ctxs.                                        *)
(* The log `calls` keeps the first MaxCalls calls of a request.            *)
IssueCall(r, a, act, retry, model, cl, ctxs) ==
  /\ retry_count' = [retry_count EXCEPT ![r] = retry]
  /\ model_name' = [model_name EXCEPT ![r] = model]
  /\ user_contexts' = GetContext(ctxs, a.username)
  /\ calls' = [calls EXCEPT ![r] =
        IF Len(@) >= MaxCalls THEN @
        ELSE Append(@, [idx |-> cl.idx, key |-> cl.key, kind |-> cl.kind,
                        model |-> TargetModel(model),
                        prompt |-> BuildPrompt(a.user_query, a.schema, act,
                                               a.conversation_history, ctxs,
                                               a.username)])]
  /\ pc' = [pc EXCEPT ![r] = "awaiting"]

(* ---------------------------------------------------------------------- *)
(* process_query, up to its first await                                    *)
(* ---------------------------------------------------------------------- *)
HasClientUnchecked(cl) == TRUE

HasClient(cl) == cl.kind # "none"

ProcessQuery(r, a) ==
  /\ pc[r] = "idle"
  /\ turns < MaxTurns
  /\ turns' = turns + 1
  /\ args' = [args EXCEPT ![r] = a]
  /\ UNCHANGED <<service, raw, web, context_call>>
  /\ IF a.db_path_kw
     THEN \* process_query has no parameter db_path: the call raises TypeError
          /\ pc' = [pc EXCEPT ![r] = "raised"]
          /\ raised' = [raised EXCEPT ![r] = "TypeError"]
          /\ UNCHANGED <<store, active_table, retry_count, model_name,
                         result, calls>>
     ELSE LET ctxs == IF Truthy(a.selected_table) THEN user_contexts
                      ELSE GetContext(user_contexts, a.username)
              act == PyOr(a.selected_table, GetActiveTable(user_contexts, a.username))
          IN  /\ active_table' = [active_table EXCEPT ![r] = act]
              /\ IF HasClient(client)
                 THEN IF PromptRaises(a.schema, a.conversation_history)
                      THEN /\ pc' = [pc EXCEPT ![r] = "raised"]
                           /\ raised' = [raised EXCEPT ![r] =
                                 IF SchemaRaises(a.schema) THEN "KeyError"
                                 ELSE "TypeError"]
                           /\ user_contexts' = ctxs
                           /\ UNCHANGED <<log_dirs, log_files, retry_count,
                                          model_name, result, calls>>
                      ELSE /\ IssueCall(r, a, act, 0, sFlash, client, ctxs)
                           /\ UNCHANGED <<log_dirs, log_files, result, raised>>
                 ELSE /\ pc' = [pc EXCEPT ![r] = "done"]
                      /\ result' = [result EXCEPT ![r] = UnavailableResult]
                      /\ user_contexts' = ctxs
                      /\ UNCHANGED <<log_dirs, log_files, retry_count,
                                     model_name, raised, calls>>

(* ---------------------------------------------------------------------- *)
(* The provider answers the awaited call with `outcome` (a reply text or   *)
(* an exception) and _llm_process resumes with it, up to the next await    *)
(* or to the return of process_query.                                      *)
(* ---------------------------------------------------------------------- *)
ResumeSuccess(r, outcome) ==
  LET a == args[r]
      res == WithMetadata(ParseLLMResponse(outcome.raw).result)
      sql == Get(res, "query", None)
      table == PyOr(Get(res, "target_table", None), active_table[r])
  IN  /\ Finish(r, res, Update(user_contexts, a.username, table, a.user_query, sql))
      /\ UNCHANGED <<service, retry_count, model_name, calls>>

(* builds: the outcomes the construction of the next key's client may    *)
(* have, TRUE for a client built and FALSE for a construction that raises *)
ResumeFailure(r, outcome, builds) ==
  LET a == args[r]
      error_msg == ErrorMsg(outcome)
  IN  IF ShouldRotate(model_name[r], error_msg, retry_count[r], api_keys)
      THEN \E built \in builds :
             LET rotated == RotateKey(api_keys, current_key_index, vertex_creds,
                                      built, client)
             IN  IF rotated.ok
                 THEN /\ current_key_index' = rotated.index
                      /\ client' = rotated.client
                      /\ IssueCall(r, a, active_table[r], retry_count[r] + 1,
                                   model_name[r], rotated.client, user_contexts)
                      /\ UNCHANGED <<api_keys, sdk_ok, vertex_creds, log_dirs,
                                     log_files, result>>
                 ELSE /\ Finish(r, ExhaustedResult(error_msg), user_contexts)
                      /\ UNCHANGED <<service, retry_count, model_name, calls>>
      ELSE IF ShouldFallBack(model_name[r], error_msg, retry_count[r], api_keys)
      THEN /\ IssueCall(r, a, active_table[r], 0, sFlash8b, client, user_contexts)
           /\ UNCHANGED <<service, log_dirs, log_files, result>>
      ELSE /\ Finish(r, ExhaustedResult(error_msg), user_contexts)
           /\ UNCHANGED <<service, retry_count, model_name, calls>>

ResumeWith(r, outcome, builds) ==
  /\ pc[r] = "awaiting"
  /\ raw' = [raw EXCEPT ![r] = outcome.raw]
  /\ IF Succeeds(outcome) THEN ResumeSuccess(r, outcome)
     ELSE ResumeFailure(r, outcome, builds)
  /\ UNCHANGED <<turns, args, active_table, raised, web, context_call>>

(* a client can be built for every key of the pool *)
Resume(r, outcome) == ResumeWith(r, outcome, {TRUE})

(* the construction of a client may raise at any rotation *)
ResumeAny(r, outcome) == ResumeWith(r, outcome, BOOLEAN)

(* The caller has the result (or the exception); the request is over.      *)
Return(r) ==
  /\ pc[r] \in {"done", "raised"}
  /\ pc' = [pc EXCEPT ![r] = "idle"]
  /\ args' = [args EXCEPT ![r] = NoArgs]
  /\ active_table' = [active_table EXCEPT ![r] = None]
  /\ retry_count' = [retry_count EXCEPT ![r] = 0]
  /\ model_name' = [model_name EXCEPT ![r] = <<>>]
  /\ raw' = [raw EXCEPT ![r] = <<>>]
  /\ result' = [result EXCEPT ![r] = EmptyDict]
  /\ raised' = [raised EXCEPT ![r] = ""]
  /\ calls' = [calls EXCEPT ![r] = <<>>]
  /\ UNCHANGED <<service, store, turns, web, context_call>>

(* One request at a time: process_query is called while no other request   *)
(* is in flight, and runs in the first frame.                              *)
Quiet == \A r \in Reqs : pc[r] = "idle"

Next ==
  \/ \E a \in Args : Quiet /\ ProcessQuery(1, a)
  \/ \E r \in Reqs, outcome \in Outcomes : Resume(r, outcome)
  \/ \E r \in Reqs : Return(r)

Spec == Init /\ [][Next]_vars

(* The same protocol driven by well-formed requests and by one provider    *)
(* outcome of each class (rotatable, model error, unclassified, a reply    *)
(* that parses, a reply that does not).  An awaited generate_content call  *)
(* runs to completion or failure, and the event loop then resumes the      *)
(* coroutine: weak fairness of Resume.                                     *)
PlainArgs ==
  {a \in Args : /\ ~a.db_path_kw
                /\ ~PromptRaises(a.schema, a.conversation_history)
                /\ a.selected_table = None}

OutcomeClasses ==
  { Exc(<<"4","2","9"," ","R","E","S","O","U","R","C","E","_","E","X","H","A","U","S","T","E","D">>), Exc(<<"4","0","4"," ","N","O","T","_","F","O","U","N","D">>),
    Exc(<<"4","0","0"," ","I","N","V","A","L","I","D","_","A","R","G","U","M","E","N","T">>), Text(ReplyInfo), Text(ReplyDelimited) }

NextPlain ==
  \/ \E a \in PlainArgs : Quiet /\ ProcessQuery(1, a)
  \/ \E r \in Reqs, outcome \in OutcomeClasses : Resume(r, outcome)
  \/ \E r \in Reqs : Return(r)

FairSpec ==
  /\ Init /\ [][NextPlain]_vars
  /\ \A r \in Reqs : WF_vars(\E outcome \in OutcomeClasses : Resume(r, outcome))

(* ---------------------------------------------------------------------- *)
(* Requests one at a time, as in FairSpec, on a service for which the      *)
(* construction of a client (genai.Client in the try block of              *)
(* _init_client) may raise at any rotation.                                *)
(* ---------------------------------------------------------------------- *)
BuildNext ==
  \/ \E a \in PlainArgs : Quiet /\ ProcessQuery(1, a)
  \/ \E r \in Reqs, outcome \in OutcomeClasses : ResumeAny(r, outcome)
  \/ \E r \in Reqs : Return(r)

BuildSpec == Init /\ [][BuildNext]_vars

(* ---------------------------------------------------------------------- *)
(* Concurrent requests.  query_nl is a coroutine of the event loop: while  *)
(* one request awaits generate_content, other requests are started and     *)
(* resumed, each running up to its own await.  Two requests are in flight  *)
(* at once, in the first and in the last frame; a request runs in the      *)
(* first of them that is free, and each serves one request.  The service   *)
(* has                                                                     *)
(* already answered n earlier questions of the user, n in SeedLens, each   *)
(* with a reply that names no table, so that each was recorded by          *)
(* update(username, None, query, None).                                    *)
(* ---------------------------------------------------------------------- *)
SeedLens == {0, HistoryCap}

PastQuery(i) == <<"e","a","r","l","i","e","r"," ","q","u","e","s","t","i","o","n"," ">> \o <<<<"0","1","2","3","4","5","6","7","8","9">>[i]>>

RECURSIVE Seeded(_)
Seeded(n) ==
  IF n = 0 THEN EmptyDict
  ELSE Update(Seeded(n - 1), CHOOSE u \in Users : TRUE, None, PastQuery(n), None)

ConcInit == \E n \in SeedLens : Start(Seeded(n))

ReplySqlTable ==
  Obj([type |-> sSql, query |-> sqlSelect, queryType |-> sSELECT,
       explanation |-> sExecuting, target_table |-> tEmployee])

ConcOutcomes ==
  {Exc(<<"4","2","9"," ","R","E","S","O","U","R","C","E","_","E","X","H","A","U","S","T","E","D">>), Text(ReplyInfo), Text(ReplySqlTable)}

Pair == {1, NumReqs}

FirstFree(r) == pc[r] = "idle" /\ \A q \in Pair : q < r => pc[q] # "idle"

ConcNext ==
  \/ \E r \in Pair, a \in PlainArgs : FirstFree(r) /\ ProcessQuery(r, a)
  \/ \E r \in Pair, outcome \in ConcOutcomes : Resume(r, outcome)

ConcSpec == ConcInit /\ [][ConcNext]_vars

(* ====================================================================== *)
(* Properties                                                              *)
(* ====================================================================== *)
PoolSize == Len(api_keys)

TriedIdx(r) == {calls[r][i].idx : i \in 1..Len(calls[r])}

HasUntriedKey(r) == \E i \in 0..(PoolSize - 1) : i \notin TriedIdx(r)

(* C1: when the awaited provider call of a request fails with a rotatable  *)
(* error while the pool holds a position the request has not called yet,   *)
(* the step that handles the failure advances the pool index by exactly    *)
(* one position (circularly), and leaves the request awaiting a new call   *)
(* made with the key at the new index for the same query and model; no     *)
(* result is returned in that step.  On a 2-key pool the second call of a  *)
(* request whose first call was rate-limited therefore uses the other key. *)
C1_RotateOnceAndReissue ==
  [][\A r \in Reqs : \A o \in Outcomes :
        (/\ pc[r] = "awaiting" /\ raw'[r] = o.raw /\ HasUntriedKey(r)
         /\ ~Succeeds(o) /\ IsRotatable(ErrorMsg(o))
         /\ Resume(r, o)) =>
          /\ current_key_index' = (current_key_index + 1) % PoolSize
          /\ pc'[r] = "awaiting"
          /\ result'[r] = EmptyDict
          /\ Len(calls'[r]) = Len(calls[r]) + 1
          /\ LET before == calls[r][Len(calls[r])]
                 after == calls'[r][Len(calls'[r])]
             IN  /\ after.idx = current_key_index'
                 /\ after.key = api_keys[current_key_index' + 1]
                 /\ after.model = before.model
                 /\ after.prompt.user_query = before.prompt.user_query
                 /\ after.prompt.user_query = args[r].user_query]_vars

(* C1 witness: a request on a 2-key pool whose first call went to the      *)
(* first key now awaits its second call, made to the second key with the   *)
(* same model.                                                             *)
C1_Witness ==
  \E r \in Reqs :
     /\ PoolSize = 2 /\ pc[r] = "awaiting" /\ Len(calls[r]) = 2
     /\ calls[r][1].idx = 0 /\ calls[r][2].idx = 1
     /\ calls[r][1].key # calls[r][2].key
     /\ calls[r][1].model = calls[r][2].model


(* ---------------------------------------------------------------------- *)
Max(a, b) == IF a > b THEN a ELSE b

CallsOfModel(r, target_model) ==
  Cardinality({i \in 1..Len(calls[r]) : calls[r][i].model = target_model})

(* C2, as stated: whatever failures occur, the provider calls issued for   *)
(* one request never exceed the size of the (non-empty) pool.              *)
C2_Original ==
  \A r \in Reqs : PoolSize >= 1 => Len(calls[r]) <= PoolSize

(* C2, amended: the pool size bounds the calls per model.  A request calls *)
(* each of the two models (gemini-1.5-flash, then the fallback             *)
(* gemini-1.5-flash-8b) at most max(poolSize, 1) times, after at most      *)
(* poolSize - 1 rotations for that model, so it issues at most             *)
(* 2 * max(poolSize, 1) provider calls in all.                             *)
C2_CallsBoundedPerModel ==
  \A r \in Reqs :
     /\ retry_count[r] <= Max(PoolSize - 1, 0)
     /\ CallsOfModel(r, sFlashLatest) <= Max(PoolSize, 1)
     /\ CallsOfModel(r, sFlash8b) <= Max(PoolSize, 1)
     /\ \A i \in 1..Len(calls[r]) : calls[r][i].model \in {sFlashLatest, sFlash8b}
     /\ Len(calls[r]) <= 2 * Max(PoolSize, 1)

(* C2 witness: a request on a 2-key pool has made 4 provider calls, two    *)
(* per model, and every one of them failed.                                *)
C2_Witness ==
  \E r \in Reqs :
     /\ PoolSize = 2 /\ pc[r] = "done" /\ result[r].type = sError
     /\ Len(calls[r]) = 4
     /\ CallsOfModel(r, sFlashLatest) = 2 /\ CallsOfModel(r, sFlash8b) = 2


(* ---------------------------------------------------------------------- *)
(* C3: every request terminates.  Whatever the provider answers and        *)
(* whatever the pool size, a request that awaits a provider call           *)
(* eventually has its result returned by process_query: the re-invocation  *)
(* of _llm_process after a rotation or a model fallback does not go on     *)
(* forever.                                                                *)
C3_EveryRequestTerminates ==
  \A r \in Reqs : (pc[r] = "awaiting") ~> (pc[r] = "done")

(* C3 witness: on a pool of at most one key with a client, a request whose *)
(* calls all failed has returned the exhausted error after two calls.      *)
C3_Witness ==
  \E r \in Reqs :
     /\ PoolSize <= 1 /\ client # NoClient
     /\ pc[r] = "done" /\ result[r].type = sError
     /\ result[r].message = sExhausted
     /\ Len(calls[r]) = 2


(* ---------------------------------------------------------------------- *)
(* SQL texts the live database of SchemaEmployee rejects: EMPLOYEE has no  *)
(* column NICKNAME, and the word null is not a statement.                  *)
SqlRejectedByDb == {sqlBadColumn, sqlNull}

(* C4, as stated: a returned sql result whose SQL the live database        *)
(* rejects can only be the product of the one re-prompt, so the request    *)
(* has made a further provider call whose prompt carries the failed SQL    *)
(* and the validation error.                                               *)
C4_Original ==
  \A r \in Reqs :
     (/\ pc[r] = "done"
      /\ result[r].type = sSql
      /\ result[r].query \in SqlRejectedByDb) =>
        /\ Len(calls[r]) >= 2
        /\ LET prompt == calls[r][Len(calls[r])].prompt
           IN  /\ Has(prompt, "failed_sql")
               /\ Has(prompt, "error_feedback")
               /\ prompt["failed_sql"] \in SqlRejectedByDb

(* ---------------------------------------------------------------------- *)
(* C5, as stated: no exception escapes process_query; every call returns   *)
(* a result value.                                                         *)
C5_Original == \A r \in Reqs : pc[r] # "raised" /\ raised[r] = ""

(* ---------------------------------------------------------------------- *)
ResultTypes == {sSql, sInfo, sClarification, sError}

ReplyType(text) == Get(JsonLoads(StripFences(text)).data, "type", sInfo)

(* C6: every result process_query returns is one of the four variants:     *)
(* its type is sql, info, clarification or error (a reply of any other     *)
(* type is returned as info); a sql result has the fields query and        *)
(* queryType; an info, clarification or error result has the field         *)
(* message and neither query nor queryType.                                *)
C6_ResultIsOneOfFourVariants ==
  \A r \in Reqs :
     pc[r] = "done" =>
       LET res == result[r]
       IN  /\ Has(res, "type")
           /\ res.type \in ResultTypes
           /\ res.type = sSql => Has(res, "query") /\ Has(res, "queryType")
           /\ res.type # sSql =>
                Has(res, "message") /\ ~Has(res, "query") /\ ~Has(res, "queryType")
           /\ (Succeeds(Text(raw[r])) /\ ReplyType(raw[r]) \notin ResultTypes) =>
                res.type = sInfo

(* C6 witness: a reply of the unknown type "chart" that carries a query    *)
(* has been returned as an info result without a query.                    *)
C6_Witness ==
  \E r \in Reqs :
     /\ pc[r] = "done" /\ raw[r] = ReplyUnknownType
     /\ result[r].type = sInfo /\ result[r].message = sReprOfData
     /\ ~Has(result[r], "query")


(* ---------------------------------------------------------------------- *)
NullMarkers == { <<"n","u","l","l">>, <<"n","o","n","e">>, <<"n","/","a">>, <<"n","o","t"," ","a","p","p","l","i","c","a","b","l","e">>, <<>> }

IsNullMarker(sql) == Lower(sql) \in NullMarkers

(* C7, as stated: SQL text that is a null marker never reaches the caller  *)
(* as a sql result, and is never recorded as a user's last SQL.            *)
C7_Original ==
  /\ \A r \in Reqs :
        (pc[r] = "done" /\ Has(result[r], "query")) =>
           ~(result[r].type = sSql /\ IsNullMarker(result[r].query))
  /\ \A u \in DOMAIN user_contexts : ~IsNullMarker(user_contexts[u].last_sql)

(* ---------------------------------------------------------------------- *)
(* C8, as stated: a request whose provider reply is the delimited text     *)
(* 'SQL_QUERY: null / EXPLANATION: Hello! How can I help?' returns the     *)
(* info result with that explanation as message.                           *)
C8_Original ==
  \A r \in Reqs :
     (pc[r] = "done" /\ raw[r] = ReplyDelimited) =>
        /\ result[r].type = sInfo
        /\ result[r].message = sHelloReply
        /\ ~Has(result[r], "query")

(* ---------------------------------------------------------------------- *)
NoCredentials == api_keys = <<>> /\ client = NoClient

FallbackOf(r) ==
  FallbackProcess(args[r].user_query, args[r].schema, active_table[r],
                  user_contexts)

(* C10, as stated: when no provider client exists, the result of a         *)
(* request is the one _fallback_process computes for its query, schema     *)
(* and active table (where the matcher returns one), not the               *)
(* "unavailable" error result.                                             *)
C10_Original ==
  \A r \in Reqs :
     (pc[r] = "done" /\ client = NoClient /\ FallbackOf(r).raised = None)
       => result[r] = FallbackOf(r).result


(* ---------------------------------------------------------------------- *)
(* C11: whenever the key pool is not empty, the current key index is a     *)
(* position of the pool: 0 <= current_key_index < poolSize, after any      *)
(* number of rotations and under any interleaving of two requests.         *)
C11_IndexInRange ==
  PoolSize >= 1 => current_key_index \in 0..(PoolSize - 1)

(* C11 witness: on a 2-key pool the index is back at 0 after it has been   *)
(* rotated to 1: a request called the key at position 1 and, later, the    *)
(* key at position 0.                                                      *)
C11_Witness ==
  /\ PoolSize = 2 /\ current_key_index = 0
  /\ \E r \in Reqs : \E i, j \in 1..Len(calls[r]) :
        i < j /\ calls[r][i].idx = 1 /\ calls[r][j].idx = 0


(* ---------------------------------------------------------------------- *)
(* the outcome of n successive _rotate_key calls made from the current     *)
(* state of the service (each client is built)                             *)
RECURSIVE Rotated(_)
Rotated(n) ==
  IF n = 0
  THEN [ok |-> TRUE, index |-> current_key_index, client |-> client]
  ELSE RotateKey(api_keys, Rotated(n - 1).index, vertex_creds, TRUE,
                 Rotated(n - 1).client)

(* C12: on a pool of N > 1 keys every _rotate_key call returns True and    *)
(* moves the index to the next position modulo N: from every reachable     *)
(* state, N successive rotations visit N different positions, that is      *)
(* each position once, and the N-th brings the index back to where it      *)
(* started; and wherever a request's next call was made at another         *)
(* position than its previous one, that position is the next one           *)
(* modulo N.                                                               *)
C12_RotationIsCircular ==
  PoolSize > 1 =>
    /\ \A n \in 1..PoolSize :
          /\ Rotated(n).ok
          /\ Rotated(n).index = (Rotated(n - 1).index + 1) % PoolSize
    /\ Cardinality({Rotated(n).index : n \in 0..(PoolSize - 1)}) = PoolSize
    /\ Rotated(PoolSize).index = current_key_index
    /\ \A r \in Reqs : \A i \in 1..(Len(calls[r]) - 1) :
          calls[r][i + 1].idx # calls[r][i].idx =>
             calls[r][i + 1].idx = (calls[r][i].idx + 1) % PoolSize

(* C12 witness: on a 2-key pool a request that started at position 1 has   *)
(* rotated, and its second call went to position 0.                        *)
C12_Witness ==
  \E r \in Reqs :
     /\ PoolSize = 2 /\ Len(calls[r]) >= 2
     /\ calls[r][1].idx = 1 /\ calls[r][2].idx = 0
     /\ Rotated(1).ok


(* ---------------------------------------------------------------------- *)
(* C13: on a pool of 0 or 1 keys _rotate_key returns False and changes     *)
(* nothing: called in any reachable state, whether or not a client could   *)
(* be built, it leaves the index and the client as they are.  In the       *)
(* requests themselves the index therefore stays 0, the client stays the   *)
(* one __init__ made, and every call of a request is made with it.         *)
C13_RotateIsNoOpOnSmallPool ==
  PoolSize <= 1 =>
    /\ \A built \in BOOLEAN :
          RotateKey(api_keys, current_key_index, vertex_creds, built, client)
            = [ok |-> FALSE, index |-> current_key_index, client |-> client]
    /\ current_key_index = 0
    /\ client = InitClient(api_keys, 0, vertex_creds, sdk_ok, NoClient)
    /\ \A r \in Reqs : \A i \in 1..Len(calls[r]) :
          /\ calls[r][i].idx = 0
          /\ calls[r][i].key = client.key /\ calls[r][i].kind = client.kind

(* C13 witness: on a 1-key pool a request has ended with the exhausted     *)
(* error after a rotatable failure, its calls all made at position 0.      *)
C13_Witness ==
  \E r \in Reqs :
     /\ PoolSize = 1 /\ client.kind = "key"
     /\ pc[r] = "done" /\ result[r].type = sError
     /\ Has(result[r], "error_details")
     /\ IsRotatable(result[r].error_details)
     /\ ~RotateKey(api_keys, current_key_index, vertex_creds, TRUE, client).ok


(* ---------------------------------------------------------------------- *)
(* C14, as stated: rotation is a critical section.  When a request's call  *)
(* on the key at position i fails and the request rotates, its next call   *)
(* (to the same model) is made with the key at position i + 1 modulo the   *)
(* pool size, also while another request is in flight and rotates too: no  *)
(* key is skipped and none is called again in place of the next one.       *)
C14_Original ==
  \A r \in Reqs : \A i \in 1..(Len(calls[r]) - 1) :
     calls[r][i + 1].model = calls[r][i].model =>
        calls[r][i + 1].idx = (calls[r][i].idx + 1) % PoolSize


(* ---------------------------------------------------------------------- *)
(* C15, as stated: the client and the index never disagree.  Whenever the  *)
(* service has a client made from the key pool, it is the client of the    *)
(* key at the current index, and the provider call a request awaits was    *)
(* made with that key; this also after a rotation in which the             *)
(* construction of the next client raised.                                 *)
C15_Original ==
  (PoolSize >= 1 /\ client # NoClient) =>
     /\ client.idx = current_key_index
     /\ client.key = api_keys[current_key_index + 1]
     /\ \A r \in Reqs :
           pc[r] = "awaiting" =>
              calls[r][Len(calls[r])].key = api_keys[current_key_index + 1]


(* ---------------------------------------------------------------------- *)
(* the step in which request r, resumed with a reply that parses, ends:    *)
(* the step that calls ContextMemory.update                                *)
Updates(r) ==
  /\ pc[r] = "awaiting" /\ pc'[r] = "done"
  /\ \E o \in Outcomes : raw'[r] = o.raw /\ Succeeds(o)

LastEntry(ctxs, u) == ctxs[u].history[Len(ctxs[u].history)]

(* C16: the active table is sticky.  In a step that calls update for user  *)
(* u, the table of the call being the one the new last history entry       *)
(* records: if that table is absent (None or empty) the active table of u  *)
(* stays what it was, and otherwise it becomes that table.  No other step  *)
(* changes the active table of any user, so that once set it is never      *)
(* cleared.                                                                *)
C16_ActiveTableIsSticky ==
  [][\A u \in Users :
       LET before == GetActiveTable(user_contexts, u)
           after == GetActiveTable(user_contexts', u)
       IN  IF \E r \in Reqs : Updates(r) /\ args[r].username = u
           THEN LET table == LastEntry(user_contexts', u).table
                IN  after = IF Truthy(table) THEN table ELSE before
           ELSE after = before]_vars

(* C16 witness: an update with an absent table has left the active table   *)
(* in place: a user's active table is EMPLOYEE, set by an earlier update   *)
(* the history still holds, and the last history entry has no table.       *)
C16_Witness ==
  \E u \in DOMAIN user_contexts :
     LET h == user_contexts[u].history
     IN  /\ Len(h) >= 2
         /\ user_contexts[u].active_table = tEmployee
         /\ h[Len(h) - 1].table = tEmployee
         /\ h[Len(h)].table = None


(* ---------------------------------------------------------------------- *)
History(ctxs, u) == GetContext(ctxs, u)[u].history

(* C17: the history of a user is a FIFO of capacity 10.  A step that       *)
(* calls update for user u appends one entry, the query of the request     *)
(* and the SQL of its result, behind the entries the history held, in      *)
(* their order; when the history held 10 entries already, its oldest       *)
(* entry, and only that one, is dropped.  No other step changes a          *)
(* history, and no history is ever longer than 10.  By induction the       *)
(* history after n updates is the last min(n, 10) entries in call order,   *)
(* also when the updates come from requests that are in flight together.   *)
C17_HistoryIsBoundedFifo ==
  [][\A u \in Users :
       LET h == History(user_contexts, u)
           hh == History(user_contexts', u)
           dropped == Len(h) + 1 - Len(hh)
       IN  /\ Len(h) <= HistoryCap /\ Len(hh) <= HistoryCap
           /\ \A r \in Reqs :
                 (Updates(r) /\ args[r].username = u) =>
                    /\ Len(hh) = IF Len(h) < HistoryCap THEN Len(h) + 1
                                 ELSE HistoryCap
                    /\ \A i \in 1..(Len(hh) - 1) : hh[i] = h[i + dropped]
                    /\ hh[Len(hh)].query = args[r].user_query
                    /\ hh[Len(hh)].sql = Get(result'[r], "query", None)
           /\ (~\E r \in Reqs : Updates(r) /\ args[r].username = u) => hh = h]_vars

(* C17 witness: two updates were made on a history that held the 10        *)
(* entries of 10 earlier questions: it holds 10 entries, the two oldest    *)
(* questions are gone, the third is now the first entry, and the two new   *)
(* entries are the last ones.                                              *)
C17_Witness ==
  \E u \in DOMAIN user_contexts :
     LET h == user_contexts[u].history
     IN  /\ Len(h) = HistoryCap
         /\ h[1].query = PastQuery(3)
         /\ h[HistoryCap - 2].query = PastQuery(HistoryCap)
         /\ h[HistoryCap - 1].query \in Queries
         /\ h[HistoryCap].query \in Queries


(* ---------------------------------------------------------------------- *)
(* a user the service has not seen *)
sCarol == <<"c","a","r","o","l">>

(* C18: get_summary is idempotent and read-only.  In every reachable       *)
(* state and for every user u, seen before or not: a second                *)
(* get_summary(u), made on the dictionary the first one leaves, returns    *)
(* the same string as the first; and the first leaves the context of       *)
(* every user, as _get_context reads it (active table, last query, last    *)
(* SQL, history), as it was.  In a request, whose every provider call      *)
(* puts get_summary(username) into its prompt, the calls of one request    *)
(* therefore carry the same summary.                                       *)
C18_SummaryIsIdempotentAndReadOnly ==
  /\ \A u \in Users \cup {sCarol} :
        LET after == GetContext(user_contexts, u)
        IN  /\ GetSummary(after, u) = GetSummary(user_contexts, u)
            /\ \A v \in DOMAIN user_contexts : after[v] = user_contexts[v]
            /\ \A v \in Users \cup {sCarol} :
                  GetContext(after, v)[v] = GetContext(user_contexts, v)[v]
  /\ \A r \in Reqs : \A i, j \in 1..Len(calls[r]) :
        calls[r][i].prompt.context_str = calls[r][j].prompt.context_str

(* C18 witness: a request has made two provider calls for a user whose     *)
(* context holds an active table, a last query and a last SQL; both        *)
(* prompts carry the summary of that context; and another user is still    *)
(* unseen.                                                                 *)
C18_Witness ==
  \E r \in Reqs :
     /\ Len(calls[r]) >= 2
     /\ args[r].username \in DOMAIN user_contexts
     /\ Truthy(user_contexts[args[r].username].active_table)
     /\ Truthy(user_contexts[args[r].username].last_sql)
     /\ calls[r][2].prompt.context_str
          = GetSummary(user_contexts, args[r].username)
     /\ Contains(calls[r][2].prompt.context_str, <<"L","a","s","t"," ","S","Q","L",":"," ">>)
     /\ sCarol \notin DOMAIN user_contexts


(* ---------------------------------------------------------------------- *)
(* the error results the engine makes itself: provider or parse failures   *)
(* on every attempt, or no client                                          *)
EngineError(res) ==
  /\ res.type = sError
  /\ Has(res, "error_details") \/ res.message = sUnavailable

(* C19: a request that ends with an error result of the engine leaves the  *)
(* contexts alone.  The steps of such a request are the call of            *)
(* process_query (up to its first provider call, or to the unavailable     *)
(* error when there is no client), the steps that reissue the call after   *)
(* a failure, and the step that returns the exhausted error: each of them  *)
(* leaves the active table, last query, last SQL and history of every      *)
(* user, as read through _get_context, exactly as they were.  Requests     *)
(* run one at a time, so these are all the steps between the start and     *)
(* the end of the request.                                                 *)
C19_ErrorLeavesContextsAlone ==
  [][\A r \in Reqs :
       (\/ pc[r] = "idle" /\ pc'[r] = "awaiting"
        \/ pc[r] = "idle" /\ pc'[r] = "done" /\ EngineError(result'[r])
        \/ pc[r] = "awaiting" /\ pc'[r] = "awaiting"
        \/ pc[r] = "awaiting" /\ pc'[r] = "done" /\ EngineError(result'[r]))
       => \A u \in Users \cup {sCarol} :
             GetContext(user_contexts', u)[u] = GetContext(user_contexts, u)[u]]_vars

(* C19 witness: a user's context holds the one turn answered before, and   *)
(* the user's next request has ended with the exhausted error after two    *)
(* or more failed provider calls.                                          *)
C19_Witness ==
  \E r \in Reqs :
     /\ pc[r] = "done" /\ EngineError(result[r])
     /\ Has(result[r], "error_details") /\ Len(calls[r]) >= 2
     /\ args[r].username \in DOMAIN user_contexts
     /\ Len(user_contexts[args[r].username].history) = 1
     /\ Truthy(user_contexts[args[r].username].last_sql)


(* ---------------------------------------------------------------------- *)
(* C20, as stated: every completed turn is appended to the user's          *)
(* persisted log.  When a request has ended with a result made from a      *)
(* reply of the provider, logs/<username>/history.json exists and its      *)
(* last entry is that turn.  (The cap of 100 entries and the permanence    *)
(* of earlier entries are about a log that has entries.)                   *)
C20_Original ==
  \A r \in Reqs :
     (pc[r] = "done" /\ ~EngineError(result[r])) =>
        /\ Has(log_files, args[r].username)
        /\ log_files[args[r].username] # <<>>
        /\ LET history == log_files[args[r].username]
           IN  history[Len(history)].nl = args[r].user_query


(* ---------------------------------------------------------------------- *)
(* C21: the step of process_query that starts a request (its body runs:    *)
(* the call bound its arguments) resolves the active table of the request  *)
(* as the table the caller selected when one is supplied, whatever table   *)
(* the user's context stores, and as the stored active table of the user   *)
(* only when none is selected.  The prompt of the request's first          *)
(* provider call names that table, or 'Global/Implicit' when there is      *)
(* none.                                                                   *)
C21_SelectedTableWins ==
  [][\A r \in Reqs :
       (pc[r] = "idle" /\ pc'[r] # "idle" /\ ~args'[r].db_path_kw) =>
         LET selected == args'[r].selected_table
             stored == GetActiveTable(user_contexts, args'[r].username)
         IN  /\ selected \notin {None, <<>>} => active_table'[r] = selected
             /\ selected \in {None, <<>>} => active_table'[r] = stored
             /\ pc'[r] = "awaiting" =>
                  calls'[r][1].prompt.active_table =
                    IF active_table'[r] \in {None, <<>>} THEN <<"G","l","o","b","a","l","/","I","m","p","l","i","c","i","t">>
                    ELSE active_table'[r]]_vars

(* C21 witness: the user's context stores EMPLOYEE as active table from an *)
(* earlier turn, and the user's next request, made with DEPT selected,     *)
(* awaits a provider call whose prompt names DEPT.                         *)
C21_Witness ==
  \E r \in Reqs :
     /\ pc[r] = "awaiting"
     /\ args[r].selected_table = <<"D","E","P","T">>
     /\ args[r].username \in DOMAIN user_contexts
     /\ user_contexts[args[r].username].active_table = tEmployee
     /\ active_table[r] = <<"D","E","P","T">>
     /\ calls[r][1].prompt.active_table = <<"D","E","P","T">>


(* ---------------------------------------------------------------------- *)
(* the message of a failure names one of the marks *)
Names(error_msg, marks) == \E mark \in marks : Contains(error_msg, mark)

(* C22: the step that handles a failed provider call goes by the class of  *)
(* the failure's message.  A message that names 429, RESOURCE_EXHAUSTED,   *)
(* 503, 500 or Deadline Exceeded leads to a key rotation and a new call    *)
(* of the same model, as long as the request has made fewer than           *)
(* poolSize - 1 rotations for that model.  A message that names 404 or     *)
(* model-not-found and none of the rotatable marks leaves the key index    *)
(* and the client as they are; when it comes from gemini-1.5-flash the     *)
(* request goes on with one call of the fallback model                     *)
(* gemini-1.5-flash-8b on the same key, and when it comes from the         *)
(* fallback model itself the request ends with the error result and no    *)
(* further call.                                                           *)
C22_ClassificationDrivesNextStep ==
  [][\A r \in Reqs : pc[r] = "awaiting" => \A o \in Outcomes :
       LET error_msg == ErrorMsg(o)
           after == calls'[r][Len(calls'[r])]
           Failed == /\ pc[r] = "awaiting" /\ raw'[r] = o.raw
                     /\ ~Succeeds(o)
       IN  /\ (/\ Failed
               /\ Names(error_msg, RotatableMarks)
               /\ retry_count[r] < PoolSize - 1) =>
                 \/ /\ current_key_index' = (current_key_index + 1) % PoolSize
                    /\ pc'[r] = "awaiting"
                    /\ model_name'[r] = model_name[r]
                    /\ retry_count'[r] = retry_count[r] + 1
                    /\ Len(calls'[r]) = Len(calls[r]) + 1
                    /\ after.idx = current_key_index'
                 \/ ~Resume(r, o)
           /\ (/\ Failed
               /\ Names(error_msg, ModelErrorMarks)
               /\ ~Names(error_msg, RotatableMarks)) =>
                 \/ /\ current_key_index' = current_key_index
                    /\ client' = client
                    /\ model_name[r] = sFlash =>
                         /\ pc'[r] = "awaiting"
                         /\ model_name'[r] = sFlash8b
                         /\ Len(calls'[r]) = Len(calls[r]) + 1
                         /\ after.model = sFlash8b
                         /\ after.idx = current_key_index
                    /\ model_name[r] = sFlash8b =>
                         /\ pc'[r] = "done"
                         /\ result'[r].type = sError
                         /\ result'[r].error_details = error_msg
                         /\ calls'[r] = calls[r]
                 \/ ~Resume(r, o)]_vars

(* C22 witness: on a 2-key pool a request has ended with the error result  *)
(* of a 404 from the fallback model, after one call of each model, both    *)
(* on the key at position 0: neither failure rotated the pool.             *)
C22_Witness ==
  \E r \in Reqs :
     /\ PoolSize = 2 /\ pc[r] = "done" /\ result[r].type = sError
     /\ Has(result[r], "error_details")
     /\ result[r].error_details = <<"4","0","4"," ","N","O","T","_","F","O","U","N","D">>
     /\ Len(calls[r]) = 2
     /\ calls[r][1].model = sFlashLatest /\ calls[r][2].model = sFlash8b
     /\ calls[r][1].idx = 0 /\ calls[r][2].idx = 0
     /\ current_key_index = 0


(* ---------------------------------------------------------------------- *)
(* the failure does not lead to a rotation: the request has used up its   *)
(* poolSize - 1 rotations for the model, or the message is not rotatable  *)
NoRotationLeft(r, error_msg) ==
  ~(Names(error_msg, RotatableMarks) /\ retry_count[r] < PoolSize - 1)

Unclassified(error_msg) ==
  ~Names(error_msg, RotatableMarks) /\ ~Names(error_msg, ModelErrorMarks)

(* C23, as stated: when a provider call fails with a rotatable error after *)
(* the keys are exhausted, or with an unclassified error, the step that    *)
(* handles the failure returns the error result and issues no further      *)
(* provider call.                                                          *)
C23_Original ==
  [][\A r \in Reqs : \A o \in Outcomes :
       (/\ pc[r] = "awaiting" /\ raw'[r] = o.raw /\ ~Succeeds(o)
        /\ \/ Unclassified(ErrorMsg(o))
           \/ Names(ErrorMsg(o), RotatableMarks) /\ NoRotationLeft(r, ErrorMsg(o))
        /\ Resume(r, o)) =>
          /\ pc'[r] = "done"
          /\ result'[r].type = sError
          /\ calls'[r] = calls[r]]_vars

(* C23, amended: a failure that does not lead to a rotation (the keys are  *)
(* exhausted for the model, or the message is not rotatable, classified    *)
(* or not) ends the request with the error result and no further call     *)
(* only when the failed call was made to the fallback model               *)
(* gemini-1.5-flash-8b.  When it was made to gemini-1.5-flash, the         *)
(* request goes on with one call of the fallback model on the current      *)
(* key, with its rotation count back at 0, and no result is returned yet.  *)
C23_ErrorOnlyAfterFallbackModel ==
  [][\A r \in Reqs : pc[r] = "awaiting" => \A o \in Outcomes :
       (/\ pc[r] = "awaiting" /\ raw'[r] = o.raw /\ ~Succeeds(o)
        /\ NoRotationLeft(r, ErrorMsg(o))) =>
          \/ /\ current_key_index' = current_key_index
             /\ model_name[r] = sFlash8b =>
                  /\ pc'[r] = "done"
                  /\ result'[r] = ExhaustedResult(ErrorMsg(o))
                  /\ calls'[r] = calls[r]
             /\ model_name[r] = sFlash =>
                  /\ pc'[r] = "awaiting"
                  /\ result'[r] = EmptyDict
                  /\ model_name'[r] = sFlash8b
                  /\ retry_count'[r] = 0
                  /\ Len(calls'[r]) = Len(calls[r]) + 1
                  /\ calls'[r][Len(calls'[r])].model = sFlash8b
                  /\ calls'[r][Len(calls'[r])].idx = current_key_index
          \/ ~Resume(r, o)]_vars

(* C23 witness: a request has ended with the error result of an            *)
(* unclassified failure (400) after two provider calls, the second one     *)
(* made to the fallback model.                                             *)
C23_Witness ==
  \E r \in Reqs :
     /\ pc[r] = "done" /\ result[r].type = sError
     /\ Has(result[r], "error_details")
     /\ result[r].error_details = <<"4","0","0"," ","I","N","V","A","L","I","D","_","A","R","G","U","M","E","N","T">>
     /\ Len(calls[r]) = 2
     /\ calls[r][1].model = sFlashLatest /\ calls[r][2].model = sFlash8b


(* ---------------------------------------------------------------------- *)
sExpectingValue == <<"E","x","p","e","c","t","i","n","g"," ","v","a","l","u","e",":"," ","l","i","n","e"," ","1"," ","c","o","l","u","m","n"," ","1"," ","(","c","h","a","r"," ","0",")">>

WriteVerbs ==
  { <<"I","N","S","E","R","T">>, <<"U","P","D","A","T","E">>, <<"D","E","L","E","T","E">>, <<"C","R","E","A","T","E">>, <<"D","R","O","P">>, <<"A","L","T","E","R">>,
    <<"R","E","P","L","A","C","E">> }

(* the first keyword of the SQL text is a write verb *)
IsWriteSql(sql) == \E verb \in WriteVerbs : StartsWith(Upper(Strip(sql)), verb)

(* C25, as stated: the queryType of a returned sql result is WRITE when    *)
(* the first keyword of its SQL is a write verb and SELECT otherwise, so a *)
(* reply that omits queryType and carries an UPDATE statement is returned  *)
(* with queryType WRITE.                                                   *)
C25_Original ==
  \A r \in Reqs :
     (pc[r] = "done" /\ result[r].type = sSql) =>
        result[r].queryType = IF IsWriteSql(result[r].query) THEN sWRITE
                              ELSE sSELECT


(* ---------------------------------------------------------------------- *)
(* C26, as stated: the loaded key pool is de-duplicated: no credential     *)
(* occupies two positions of api_keys.                                     *)
C26_Original ==
  \A i, j \in DOMAIN api_keys : api_keys[i] = api_keys[j] => i = j


(* ---------------------------------------------------------------------- *)
(* The local fallback matcher on its own: _fallback_process is called      *)
(* once, on a service without credentials, with a query, a schema and an   *)
(* active table drawn from the sets below.                                 *)
(* ---------------------------------------------------------------------- *)
tDept == <<"D","E","P","T">>

SchemaScenarioA ==
  [tables |-> << [name |-> tEmployee,
                  columns |-> <<Column(<<"I","D">>), Column(<<"F","I","R","S","T","_","N","A","M","E">>),
                                Column(<<"L","A","S","T","_","N","A","M","E">>), Column(<<"S","A","L","A","R","Y">>)>>,
                  rowCount |-> <<"3">>] >>]

(* a table without a name-like column *)
SchemaDept ==
  [tables |-> << [name |-> tDept,
                  columns |-> <<Column(<<"I","D">>), Column(<<"B","U","D","G","E","T">>)>>,
                  rowCount |-> <<"2">>] >>]

SchemaTwoTables ==
  [tables |-> SchemaScenarioA.tables \o SchemaDept.tables]

MatcherSchemas ==
  {SchemaEmployee, SchemaScenarioA, SchemaDept, SchemaTwoTables, SchemaNoName}

MatcherQueries ==
  { <<"s","h","o","w"," ","e","m","p","l","o","y","e","e","s"," ","s","t","a","r","t","i","n","g"," ","w","i","t","h"," ","S">>,
    <<"h","e","l","l","o",","," ","h","o","w"," ","m","a","n","y"," ","e","m","p","l","o","y","e","e","s">>,
    <<"h","i"," ","t","h","e","r","e">>,
    <<"e","x","p","l","a","i","n"," ","h","o","w"," ","m","a","n","y"," ","e","m","p","l","o","y","e","e","s">>,
    <<"l","i","s","t"," ","t","a","b","l","e","s"," ","a","n","d"," ","c","o","u","n","t"," ","e","m","p","l","o","y","e","e","s">>,
    <<"c","o","u","n","t"," ","r","o","w","s">>,
    <<"u","p","d","a","t","e"," ","s","a","l","a","r","y",","," ","d","e","l","e","t","e"," ","o","r"," ","c","o","u","n","t"," ","e","m","p","l","o","y","e","e","s">>,
    <<"u","p","d","a","t","e"," ","b","u","d","g","e","t"," ","o","f"," ","s","a","l","e","s"," ","t","o"," ","5">>,
    <<"u","p","d","a","t","e"," ","f","i","r","s","t"," ","n","a","m","e"," ","o","f"," ","s","a","m"," ","t","o"," ","t","o","m">>,
    <<"r","e","m","o","v","e"," ","a","n","d"," ","c","o","u","n","t"," ","e","m","p","l","o","y","e","e","s">>,
    <<"c","o","u","n","t"," ","e","m","p","l","o","y","e","e","s"," ","s","t","a","r","t","i","n","g"," ","w","i","t","h"," ","s">>,
    <<"s","h","o","w"," ","e","m","p","l","o","y","e","e","s"," ","e","n","d","i","n","g"," ","w","i","t","h"," ","n"," ","s","o","r","t"," ","b","y"," ","i","d"," ","t","o","p"," ","2">>,
    <<"s","h","o","w"," ","e","m","p","l","o","y","e","e","s"," ","s","o","r","t"," ","b","y"," ","i","d"," ","d","e","s","c"," ","l","i","m","i","t"," ","3">>,
    <<"t","o","p"," ","2"," ","e","m","p","l","o","y","e","e","s">>,
    <<"s","h","o","w"," ","d","e","p","t">>,
    <<"e","x","p","l","a","i","n"," ","h","o","w"," ","t","o"," ","r","e","m","o","v","e"," ","e","m","p","l","o","y","e","e","s">>,
    <<"s","h","o","w"," ","e","m","p","l","o","y","e","e","s">> }

MatcherInit ==
  /\ Start(EmptyDict)
  /\ api_keys = <<>>
  /\ ~sdk_ok /\ ~vertex_creds

(* _fallback_process(user_query, schema, active_table, username), from its *)
(* first line to its return or to the KeyError of a schema entry without   *)
(* "name" or "columns"                                                     *)
FallbackCall(r, user_query, schema, act, username) ==
  LET fell == FallbackProcess(user_query, schema, act, user_contexts)
  IN  /\ pc[r] = "idle"
      /\ turns = 0
      /\ turns' = turns + 1
      /\ args' = [args EXCEPT ![r] =
                    [NoArgs EXCEPT !.user_query = user_query, !.schema = schema,
                                   !.username = username]]
      /\ active_table' = [active_table EXCEPT ![r] = act]
      /\ user_contexts' = fell.ctxs
      /\ IF fell.raised = None
         THEN /\ pc' = [pc EXCEPT ![r] = "done"]
              /\ result' = [result EXCEPT ![r] = fell.result]
              /\ UNCHANGED raised
         ELSE /\ pc' = [pc EXCEPT ![r] = "raised"]
              /\ raised' = [raised EXCEPT ![r] = "KeyError"]
              /\ UNCHANGED result
      /\ UNCHANGED <<service, log_dirs, log_files, retry_count, model_name,
                     raw, calls, web, context_call>>

MatcherNext ==
  \E user_query \in MatcherQueries, schema \in MatcherSchemas,
     act \in {None, tDept}, username \in Users :
     FallbackCall(1, user_query, schema, act, username)

MatcherSpec == MatcherInit /\ [][MatcherNext]_vars


(* ---------------------------------------------------------------------- *)
(* The detectors of the matcher, on the lowered and stripped query q, in   *)
(* the order the claim gives them.                                         *)
Greets(q) ==
  \E kw \in {<<"h","e","l","l","o">>, <<"h","i"," ">>, <<"h","e","y">>, <<"g","o","o","d"," ","m","o","r","n","i","n","g">>, <<"g","o","o","d"," ","e","v","e","n","i","n","g">>} :
     Contains(q, kw)

AsksConcept(q) ==
  \E p \in {<<"w","h","a","t"," ","i","s">>, <<"w","h","a","t"," ","a","r","e">>, <<"e","x","p","l","a","i","n">>, <<"d","e","f","i","n","e">>, <<"h","o","w"," ","d","o","e","s">>,
            <<"w","h","y"," ","i","s">>, <<"t","e","l","l"," ","m","e"," ","a","b","o","u","t">>} : StartsWith(q, p)

AsksTables(q) ==
  \E kw \in {<<"w","h","a","t"," ","t","a","b","l","e","s">>, <<"s","h","o","w"," ","t","a","b","l","e","s">>, <<"l","i","s","t"," ","t","a","b","l","e","s">>, <<"w","h","i","c","h"," ","t","a","b","l","e","s">>} :
     Contains(q, kw)

(* explicit mention, else the active table, else the only table, else None *)
ResolvedTable(q, schema, act) ==
  LET names == TableNames(schema)
      mentions == {i \in DOMAIN names : Contains(q, Lower(names[i]))}
  IN  IF mentions # {} THEN names[Least(mentions)]
      ELSE IF act \notin {None, <<>>} THEN act
      ELSE IF Len(names) = 1 THEN names[1]
      ELSE None

HasAffix(q) ==
  \/ Search([i \in 1..Len(q) |-> StartsAt(q, i)]).found
  \/ Search([i \in 1..Len(q) |-> EndsAt(q, i)]).found

ExpectedStage(q, schema, act) ==
  IF Greets(q) THEN "greeting"
  ELSE IF AsksConcept(q) THEN "concept"
  ELSE IF AsksTables(q) THEN "tables"
  ELSE IF ResolvedTable(q, schema, act) = None THEN "which_table"
  ELSE IF Contains(q, <<"u","p","d","a","t","e">>) THEN "update"
  ELSE IF Contains(q, <<"d","e","l","e","t","e">>) \/ Contains(q, <<"r","e","m","o","v","e">>) THEN "delete"
  ELSE IF Contains(q, <<"c","o","u","n","t">>) \/ Contains(q, <<"h","o","w"," ","m","a","n","y">>) THEN "count"
  ELSE IF ColNames(schema, ResolvedTable(q, schema, act)) # <<>> /\ HasAffix(q)
       THEN "affix"
  ELSE "select"

(* the detector a result comes from, read off the result itself *)
ObservedStage(res) ==
  IF res.type = sSql
  THEN IF res.queryType = sWRITE THEN "update"
       ELSE IF StartsWith(res.query, <<"S","E","L","E","C","T"," ","C","O","U","N","T","(","*",")"," ","a","s"," ","c","o","u","n","t"," ","F","R","O","M"," ","\"">>) THEN "count"
       ELSE IF Contains(res.query, <<" ","W","H","E","R","E"," ","U","P","P","E","R","(","\"">>) THEN "affix"
       ELSE "select"
  ELSE IF StartsWith(res.message, <<"H","e","l","l","o","!"," ","I","'","m"," ","y","o","u","r"," ","A","I"," ","d","a","t","a","b","a","s","e"," ","a","s","s","i","s","t","a","n","t",".">>)
       THEN "greeting"
  ELSE IF StartsWith(res.message, <<"A","v","a","i","l","a","b","l","e"," ","t","a","b","l","e","s",":"," ">>) THEN "tables"
  ELSE IF StartsWith(res.message, <<"W","h","i","c","h"," ","t","a","b","l","e"," ","w","o","u","l","d"," ","y","o","u"," ","l","i","k","e"," ","t","o"," ","q","u","e","r","y","?">>)
       THEN "which_table"
  ELSE IF StartsWith(res.message, <<"P","l","e","a","s","e"," ","s","p","e","c","i","f","y"," ","t","h","e"," ","u","p","d","a","t","e"," ","c","l","e","a","r","l","y",".">>)
       THEN "update"
  ELSE IF StartsWith(res.message, <<"P","l","e","a","s","e"," ","s","p","e","c","i","f","y"," ","w","h","i","c","h"," ","r","e","c","o","r","d","s"," ","t","o"," ","d","e","l","e","t","e",".">>)
       THEN "delete"
  ELSE IF res.type = sInfo THEN "concept"
  ELSE "other"

QueryOf(r) == Strip(Lower(args[r].user_query))

NameLikeColumn(col_names) ==
  LET exact == {i \in DOMAIN col_names :
                  Lower(col_names[i]) \in {<<"f","i","r","s","t","_","n","a","m","e">>, <<"n","a","m","e">>}}
      partial == {i \in DOMAIN col_names :
                    \/ Contains(Lower(col_names[i]), <<"n","a","m","e">>)
                    \/ Contains(Lower(col_names[i]), <<"f","i","r","s","t">>)}
  IN  IF exact # {} THEN col_names[Least(exact)]
      ELSE IF partial # {} THEN col_names[Least(partial)]
      ELSE None

sqlScenarioA == <<"S","E","L","E","C","T"," ","*"," ","F","R","O","M"," ","\"","E","M","P","L","O","Y","E","E","\""," ","W","H","E","R","E"," ","U","P","P","E","R","(","\"","F","I","R","S","T","_","N","A","M","E","\"",")"," ","L","I","K","E"," ","'","S","%","'">>

(* C28: a call of _fallback_process whose query reaches the name prefix    *)
(* detector (no earlier detector matches), contains 'starting with         *)
(* <letters>' and neither an 'ending with' nor a limit, and whose          *)
(* resolved table has a name column, returns a sql result of queryType     *)
(* SELECT with the query                                                   *)
(*   SELECT * FROM "<table>" WHERE UPPER("<name column>") LIKE '<LETTERS>%' *)
(* In particular (Scenario A) 'show employees starting with S' on          *)
(* EMPLOYEE(ID, FIRST_NAME, LAST_NAME, SALARY) without an active table     *)
(* yields SELECT * FROM "EMPLOYEE" WHERE UPPER("FIRST_NAME") LIKE 'S%'.    *)
C28_NamePrefixSelect ==
  \A r \in Reqs :
     pc[r] = "done" =>
       LET q == QueryOf(r)
           table == ResolvedTable(q, args[r].schema, active_table[r])
           name_col == NameLikeColumn(ColNames(args[r].schema, table))
           starts == Search([i \in 1..Len(q) |-> StartsAt(q, i)])
       IN  /\ (/\ ExpectedStage(q, args[r].schema, active_table[r]) = "affix"
               /\ name_col # None
               /\ starts.found
               /\ ~Search([i \in 1..Len(q) |-> EndsAt(q, i)]).found
               /\ ~Search([i \in 1..Len(q) |-> LimitAt(q, i)]).found) =>
                /\ result[r].type = sSql
                /\ result[r].queryType = sSELECT
                /\ result[r].query =
                     <<"S","E","L","E","C","T"," ","*"," ","F","R","O","M"," ","\"">> \o table \o <<"\""," ","W","H","E","R","E"," ","U","P","P","E","R","(","\"">> \o name_col
                       \o <<"\"",")"," ","L","I","K","E"," ","'">> \o Upper(starts.groups[1]) \o <<"%","'">>
           /\ (/\ args[r].user_query = <<"s","h","o","w"," ","e","m","p","l","o","y","e","e","s"," ","s","t","a","r","t","i","n","g"," ","w","i","t","h"," ","S">>
               /\ args[r].schema = SchemaScenarioA
               /\ active_table[r] = None) =>
                /\ result[r].type = sSql
                /\ result[r].queryType = sSELECT
                /\ result[r].query = sqlScenarioA

(* C28 witness: Scenario A has been answered with its statement.           *)
C28_Witness ==
  \E r \in Reqs :
     /\ pc[r] = "done"
     /\ args[r].user_query = <<"s","h","o","w"," ","e","m","p","l","o","y","e","e","s"," ","s","t","a","r","t","i","n","g"," ","w","i","t","h"," ","S">>
     /\ args[r].schema = SchemaScenarioA
     /\ active_table[r] = None
     /\ result[r].query = sqlScenarioA


(* ---------------------------------------------------------------------- *)
(* C29, as stated: _fallback_process returns an UPDATE statement only when *)
(* the resolved table has an identifying (name-like) column for the WHERE  *)
(* clause, and the statement's WHERE clause is on that column; without     *)
(* one the result is a clarification.                                      *)
C29_Original ==
  \A r \in Reqs :
     (pc[r] = "done" /\ ExpectedStage(QueryOf(r), args[r].schema, active_table[r]) = "update") =>
        LET table == ResolvedTable(QueryOf(r), args[r].schema, active_table[r])
            name_col == NameLikeColumn(ColNames(args[r].schema, table))
        IN  IF name_col = None
            THEN result[r].type = sClarification
            ELSE result[r].type = sSql =>
                   Contains(result[r].query, <<" ","W","H","E","R","E"," ","\"">> \o name_col \o <<"\""," ","="," ","'">>)


(* ---------------------------------------------------------------------- *)
(* Requests of a user whose context holds earlier turns, one at a time,    *)
(* with a greeting or a data query.                                        *)
GreetArgs ==
  {[a EXCEPT !.user_query = q] : a \in PlainArgs, q \in Queries \cup {<<"h","e","l","l","o">>}}

GreetNext ==
  \/ \E a \in GreetArgs : Quiet /\ ProcessQuery(1, a)
  \/ \E r \in Reqs, outcome \in OutcomeClasses : Resume(r, outcome)
  \/ \E r \in Reqs : Return(r)

GreetSpec == ConcInit /\ [][GreetNext]_vars

(* C30, as stated: the step of process_query that builds the prompt of a   *)
(* request whose query is a greeting leaves the user's history empty and   *)
(* the user's active table as it was, and the prompt is built from the     *)
(* cleared context; for any other query the step leaves the history as it  *)
(* was.                                                                    *)
C30_Original ==
  [][\A r \in Reqs :
       (pc[r] = "idle" /\ pc'[r] = "awaiting") =>
         LET u == args'[r].username
         IN  IF Greets(Strip(Lower(args'[r].user_query)))
             THEN /\ History(user_contexts', u) = <<>>
                  /\ GetActiveTable(user_contexts', u) = GetActiveTable(user_contexts, u)
                  /\ calls'[r][1].prompt.context_str = GetSummary(user_contexts', u)
             ELSE History(user_contexts', u) = History(user_contexts, u)]_vars


(***************************************************************************)
(* The routes of main.py over the system tables.  Every route below but    *)
(* forgot_password depends on get_current_user: the caller is a registered *)
(* user named by a valid token.  A response carries the route, the caller, *)
(* the status, the message or detail, and the databases whose schema, rows *)
(* or file it contains.                                                    *)
(***************************************************************************)
Emails == {"alice@example.com", "bob@example.com", "carol@example.com"}

DatabaseIds == {1, 2}

UserIds == DOMAIN SeedUsers

UsersWithEmail(rows, email) == {id \in DOMAIN rows : rows[id].email = email}

Respond(route, caller, status, message, data) ==
  [route |-> route, caller |-> caller, status |-> status,
   message |-> message, data |-> data]

msgIfAccountExists ==
  <<"I","f"," ","a","n"," ","a","c","c","o","u","n","t"," ","e","x","i","s","t","s"," ","w","i","t","h"," ","t","h","i","s"," ","e","m","a","i","l",","," ","a"," ","r","e","s","e","t"," ","l","i","n","k"," ","h","a","s"," ","b","e","e","n"," ","s","e","n","t",".">>

msgResetSent == <<"R","e","s","e","t"," ","i","n","s","t","r","u","c","t","i","o","n","s"," ","s","e","n","t"," ","t","o"," ","y","o","u","r"," ","e","m","a","i","l",".">>

(* forgot_password: what the route answers for an email *)
ForgotPasswordReply(rows, email) ==
  IF UsersWithEmail(rows, email) = {}
  THEN [status |-> 200, message |-> msgIfAccountExists]
  ELSE [status |-> 200, message |-> msgResetSent]

ForgotPassword(email) ==
  LET user  == UsersWithEmail(user_rows, email)
      reply == ForgotPasswordReply(user_rows, email)
  IN  /\ user_rows' = [id \in DOMAIN user_rows |->
                         IF id \in user
                         THEN [user_rows[id] EXCEPT !.reset_token = TRUE]
                         ELSE user_rows[id]]
      /\ response' = Respond("forgot_password", 0, reply.status,
                             reply.message, {})
      /\ UNCHANGED <<service, store, turns, frames, context_call, database_rows,
                     permission_rows>>

msgDatabaseNotFound == <<"D","a","t","a","b","a","s","e"," ","n","o","t"," ","f","o","u","n","d">>

msgNoPermission == <<"Y","o","u"," ","d","o"," ","n","o","t"," ","h","a","v","e"," ","p","e","r","m","i","s","s","i","o","n"," ","t","o"," ","a","c","c","e","s","s"," ","t","h","i","s"," ","d","a","t","a","b","a","s","e">>

msgNotOwned == <<"D","a","t","a","b","a","s","e"," ","n","o","t"," ","f","o","u","n","d"," ","o","r"," ","n","o","t"," ","o","w","n","e","d"," ","b","y"," ","y","o","u">>

msgDeleted == <<"D","a","t","a","b","a","s","e"," ","d","e","l","e","t","e","d"," ","s","u","c","c","e","s","s","f","u","l","l","y">>

msgUserNotFound == <<"U","s","e","r"," ","n","o","t"," ","f","o","u","n","d">>

msgCollaboratorAdded == <<"C","o","l","l","a","b","o","r","a","t","o","r"," ","a","d","d","e","d">>

HasPermission(database_id, user_id) ==
  [database_id |-> database_id, user_id |-> user_id] \in permission_rows

(* a route that reads the databases row and answers without a change *)
ReadRoute(route, database_id, user_id, checked) ==
  /\ response' =
       IF database_id \notin DOMAIN database_rows
       THEN Respond(route, user_id, 404, msgDatabaseNotFound, {})
       ELSE IF /\ checked
               /\ database_rows[database_id].owner_id # user_id
               /\ ~HasPermission(database_id, user_id)
            THEN Respond(route, user_id, 403, msgNoPermission, {})
            ELSE Respond(route, user_id, 200, <<>>, {database_id})
  /\ UNCHANGED <<service, store, turns, frames, context_call, user_rows, database_rows,
                 permission_rows>>

GetDatabaseDetails(database_id, user_id) ==
  ReadRoute("get_database_details", database_id, user_id, TRUE)

GetDatabaseSchema(database_id, user_id) ==
  ReadRoute("get_database_schema", database_id, user_id, FALSE)

DownloadDatabase(database_id, user_id) ==
  ReadRoute("download_database", database_id, user_id, FALSE)

GetSampleData(database_id, user_id) ==
  ReadRoute("get_sample_data", database_id, user_id, FALSE)

(* execute_sql: a SELECT or PRAGMA returns the rows, any other statement  *)
(* is executed and committed on the database file                         *)
ExecuteSql(database_id, user_id, is_select) ==
  IF is_select
  THEN ReadRoute("execute_sql", database_id, user_id, FALSE)
  ELSE /\ response' =
            IF database_id \notin DOMAIN database_rows
            THEN Respond("execute_sql", user_id, 404, msgDatabaseNotFound, {})
            ELSE Respond("execute_sql", user_id, 200, <<>>, {})
       /\ database_rows' =
            [id \in DOMAIN database_rows |->
               IF id = database_id
               THEN [database_rows[id] EXCEPT
                       !.written_by = @ \cup {user_id}]
               ELSE database_rows[id]]
       /\ UNCHANGED <<service, store, turns, frames, context_call, user_rows,
                      permission_rows>>

DeleteDatabase(database_id, user_id) ==
  LET db == {id \in DOMAIN database_rows :
               id = database_id /\ database_rows[id].owner_id = user_id}
  IN  /\ IF db = {}
         THEN /\ response' = Respond("delete_database", user_id, 404,
                                     msgNotOwned, {})
              /\ UNCHANGED <<database_rows, permission_rows>>
         ELSE /\ response' = Respond("delete_database", user_id, 200,
                                     msgDeleted, {})
              /\ database_rows' =
                   [id \in DOMAIN database_rows \ db |-> database_rows[id]]
              /\ permission_rows' =
                   {p \in permission_rows : p.database_id # database_id}
      /\ UNCHANGED <<service, store, turns, frames, context_call, user_rows>>

AddCollaborator(database_id, user_id, userEmail) ==
  LET user == UsersWithEmail(user_rows, userEmail)
  IN  /\ IF user = {}
         THEN /\ response' = Respond("add_collaborator", user_id, 404,
                                     msgUserNotFound, {})
              /\ UNCHANGED permission_rows
         ELSE /\ response' = Respond("add_collaborator", user_id, 200,
                                     msgCollaboratorAdded, {})
              /\ permission_rows' = permission_rows \cup
                   {[database_id |-> database_id, user_id |-> id] :
                      id \in user}
      /\ UNCHANGED <<service, store, turns, frames, context_call, user_rows,
                     database_rows>>

WebNext ==
  \/ \E email \in Emails : ForgotPassword(email)
  \/ \E database_id \in DatabaseIds, user_id \in UserIds :
       \/ GetDatabaseDetails(database_id, user_id)
       \/ GetDatabaseSchema(database_id, user_id)
       \/ DownloadDatabase(database_id, user_id)
       \/ GetSampleData(database_id, user_id)
       \/ \E is_select \in BOOLEAN :
            ExecuteSql(database_id, user_id, is_select)
       \/ DeleteDatabase(database_id, user_id)
       \/ \E userEmail \in Emails :
            AddCollaborator(database_id, user_id, userEmail)

WebSpec == MatcherInit /\ [][WebNext]_vars

(* C31: forgot_password does not reveal whether an account exists: the    *)
(* response to a request is the one any other email, registered or not,   *)
(* would have received (same status and same message).                    *)
C31_Original ==
  response.route = "forgot_password" =>
    \A email \in Emails :
      ForgotPasswordReply(user_rows, email) =
        [status |-> response.status, message |-> response.message]


(* ---------------------------------------------------------------------- *)
(* the step in which request r ends with a result that is not an error    *)
EndsWell(r) ==
  /\ pc[r] # "done" /\ pc'[r] = "done"
  /\ Get(result'[r], "type", None) # sError

(* the triple a request that ended with result res records: the user's    *)
(* query, the SQL of the result (None when it has none) and the target    *)
(* table of the result or else the active table of the request            *)
TripleOf(a, res, act) ==
  [query |-> a.user_query,
   sql |-> Get(res, "query", None),
   table |-> IF Truthy(Get(res, "target_table", None))
             THEN Get(res, "target_table", None) ELSE act]

(* C32: exactly one context update per successful request.  The step in    *)
(* which a request ends with a non-error result appends exactly one        *)
(* triple to the history of its user (query, returned SQL or None,         *)
(* returned target table or else the active table) and overwrites the      *)
(* user's last query and last SQL with the query and that SQL; the steps   *)
(* that precede it (the start of the request, a retry after a rotation,    *)
(* the call of the fallback model) leave every history as it was, so       *)
(* that however many rotations and fallbacks preceded, the request has     *)
(* updated the context once.                                               *)
C32_OneUpdatePerSuccess ==
  [][\A r \in Reqs :
       /\ EndsWell(r) =>
            LET u == args'[r].username
                triple == TripleOf(args'[r], result'[r], active_table'[r])
                after == GetContext(user_contexts', u)[u]
            IN  /\ after.history =
                     LastN(Append(History(user_contexts, u), triple), HistoryCap)
                /\ after.last_query = triple.query
                /\ after.last_sql = triple.sql
       /\ (pc'[r] = "awaiting" /\ calls'[r] # calls[r]) =>
            \A u \in Users \cup {sCarol} :
               History(user_contexts', u) = History(user_contexts, u)]_vars

(* C32 witness: a request has ended with an sql result after a rotation    *)
(* and a call of the fallback model (three provider calls or more), and    *)
(* the history of its user holds one entry, with the SQL of the result.    *)
C32_Witness ==
  \E r \in Reqs :
     /\ pc[r] = "done" /\ result[r].type = sSql
     /\ Len(calls[r]) >= 3
     /\ Len(History(user_contexts, args[r].username)) = 1
     /\ LastEntry(user_contexts, args[r].username).sql = result[r].query


(* C33: within one request and one model no credential is called twice:    *)
(* two calls of a request to the same model never carry the same key, so    *)
(* that each retry after a rotation uses a key the request has not already *)
(* failed with, also when other requests rotate the shared pool at the     *)
(* same time.  Stated for a pool whose keys are pairwise different.        *)
C33_Original ==
  (\A m, n \in 1..PoolSize : api_keys[m] = api_keys[n] => m = n) =>
     \A r \in Reqs : \A i, j \in 1..Len(calls[r]) :
        (i < j /\ calls[r][i].model = calls[r][j].model) =>
           calls[r][i].key # calls[r][j].key


(* C34: when the matcher returns an sql result for user u with target      *)
(* table T, then afterwards the active table of u is T, the last query of  *)
(* u is the user's query, the last SQL of u is the generated SQL, and no   *)
(* context entry exists under any key other than u.                        *)
C34_Original ==
  \A r \in Reqs :
     (pc[r] = "done" /\ result[r].type = sSql) =>
        LET u == args[r].username
            T == ResolvedTable(QueryOf(r), args[r].schema, active_table[r])
        IN  /\ GetActiveTable(user_contexts, u) = T
            /\ GetContext(user_contexts, u)[u].last_query = args[r].user_query
            /\ GetContext(user_contexts, u)[u].last_sql = result[r].query
            /\ DOMAIN user_contexts \subseteq {u}


(* the statement names, in double quotes, a table of the schema *)
NamesTableOf(sql, schema) ==
  \E i \in DOMAIN TableNames(schema) :
     Contains(sql, <<"\"">> \o TableNames(schema)[i] \o <<"\"">>)

(* C35: every sql result of the matcher targets a table of the schema it  *)
(* was given, also when the active table was remembered from another      *)
(* database: the target it resolved is a table of the schema and the      *)
(* statement names that table (otherwise the matcher asks for a           *)
(* clarification).                                                        *)
C35_Original ==
  \A r \in Reqs :
     (pc[r] = "done" /\ result[r].type = sSql) =>
        /\ \E i \in DOMAIN TableNames(args[r].schema) :
              TableNames(args[r].schema)[i] =
                ResolvedTable(QueryOf(r), args[r].schema, active_table[r])
        /\ NamesTableOf(result[r].query, args[r].schema)


(* ---------------------------------------------------------------------- *)
(* the query asks for a deletion and not for an update *)
AsksDelete(q) ==
  /\ Contains(q, <<"d","e","l","e","t","e">>) \/ Contains(q, <<"r","e","m","o","v","e">>)
  /\ ~Contains(q, <<"u","p","d","a","t","e">>)

(* the statement is an UPDATE of a quoted table with a WHERE clause *)
IsGuardedUpdate(sql) ==
  /\ StartsWith(sql, <<"U","P","D","A","T","E"," ","\"">>)
  /\ Contains(sql, <<" ","W","H","E","R","E"," ","\"">>)

(* C36 as stated: a query containing 'delete' or 'remove' and no 'update'  *)
(* always yields a clarification, and every WRITE result is an UPDATE      *)
(* statement with a WHERE clause.                                          *)
C36_Original ==
  \A r \in Reqs :
     pc[r] = "done" =>
        /\ AsksDelete(QueryOf(r)) => result[r].type = sClarification
        /\ (result[r].type = sSql /\ result[r].queryType = sWRITE) =>
              IsGuardedUpdate(result[r].query)

(* C36: the matcher never produces destructive SQL.  A query containing    *)
(* 'delete' or 'remove' and no 'update' never yields a sql result: it      *)
(* yields a clarification when it reaches the table resolution or the      *)
(* verb detection, and the canned info answer of the greeting, concept or  *)
(* list-tables stage when one of those matches first.  Every sql result    *)
(* that is typed WRITE or whose statement starts with a write verb is an   *)
(* UPDATE statement with a WHERE clause.                                   *)
C36_NoDestructiveSql ==
  \A r \in Reqs :
     pc[r] = "done" =>
        /\ AsksDelete(QueryOf(r)) =>
             result[r].type =
               IF ExpectedStage(QueryOf(r), args[r].schema, active_table[r])
                    \in {"greeting", "concept", "tables"}
               THEN sInfo ELSE sClarification
        /\ (/\ result[r].type = sSql
            /\ result[r].queryType = sWRITE \/ IsWriteSql(result[r].query)) =>
              /\ result[r].queryType = sWRITE
              /\ IsGuardedUpdate(result[r].query)

(* C36 witness: a query with 'remove' that names a table of the schema     *)
(* and also asks for a count has been answered with the clarification of   *)
(* the delete branch.                                                      *)
C36_Witness ==
  \E r \in Reqs :
     /\ pc[r] = "done" /\ AsksDelete(QueryOf(r))
     /\ Contains(QueryOf(r), <<"c","o","u","n","t">>)
     /\ ExpectedStage(QueryOf(r), args[r].schema, active_table[r]) = "delete"
     /\ result[r].type = sClarification
     /\ Contains(result[r].message, <<"d","e","l","e","t","e"," ","f","r","o","m"," ">>)


(***************************************************************************)
(* The ContextMemory called directly, by two users: alice, whose history   *)
(* holds 0 or 10 turns at the start, and carol.                            *)
(***************************************************************************)
CtxUsers == Users \cup {sCarol}

CtxTables == {None, tEmployee, tDept}

CtxQueries == Queries \cup {<<"c","o","u","n","t"," ","r","o","w","s">>}

CtxSqls == {None, sqlSelect}

Called(method, username, returned) ==
  /\ turns < MaxTurns
  /\ turns' = turns + 1
  /\ context_call' = [method |-> method, username |-> username,
                      returned |-> returned]
  /\ UNCHANGED <<service, log_dirs, log_files, frames, web>>

CtxUpdate(username, table, query, sql) ==
  /\ user_contexts' = Update(user_contexts, username, table, query, sql)
  /\ Called("update", username, None)

CtxGetSummary(username) ==
  /\ user_contexts' = GetContext(user_contexts, username)
  /\ Called("get_summary", username, GetSummary(user_contexts, username))

CtxGetActiveTable(username) ==
  /\ user_contexts' = GetContext(user_contexts, username)
  /\ Called("get_active_table", username,
            GetActiveTable(user_contexts, username))

CtxNext ==
  \E username \in CtxUsers :
     \/ \E table \in CtxTables, query \in CtxQueries, sql \in CtxSqls :
          CtxUpdate(username, table, query, sql)
     \/ CtxGetSummary(username)
     \/ CtxGetActiveTable(username)

CtxSpec == ConcInit /\ [][CtxNext]_vars

(* the entry of user v, a fresh one when v has none yet *)
EntryOf(ctxs, v) == IF v \in DOMAIN ctxs THEN ctxs[v] ELSE NewContext

(* C37: per-user isolation of the context.  A call of update, get_summary  *)
(* or get_active_table with username u leaves the active table, last       *)
(* query, last SQL and history of every other user v as they were, and     *)
(* with them what get_summary and get_active_table return for v; and the   *)
(* value the call returns is the one computed from u's own entry alone,    *)
(* whatever the entries of the other users hold.                           *)
C37_PerUserIsolation ==
  [][turns' # turns =>
       LET u == context_call'.username
           own == (u :> EntryOf(user_contexts, u))
       IN  /\ \A v \in CtxUsers \ {u} :
                /\ EntryOf(user_contexts', v) = EntryOf(user_contexts, v)
                /\ GetSummary(user_contexts', v) = GetSummary(user_contexts, v)
                /\ GetActiveTable(user_contexts', v)
                     = GetActiveTable(user_contexts, v)
           /\ context_call'.method = "get_summary" =>
                context_call'.returned = GetSummary(own, u)
           /\ context_call'.method = "get_active_table" =>
                context_call'.returned = GetActiveTable(own, u)]_vars

(* C37 witness: carol's update has set carol's active table while alice's  *)
(* entry, seeded with 10 turns and no active table, is as it was: the two  *)
(* users hold different active tables and histories.                       *)
C37_Witness ==
  /\ context_call.method = "update" /\ context_call.username = sCarol
  /\ sCarol \in DOMAIN user_contexts
  /\ user_contexts[sCarol].active_table = tDept
  /\ Len(user_contexts[sCarol].history) = 1
  /\ \E u \in Users :
        /\ u \in DOMAIN user_contexts
        /\ user_contexts[u] = Seeded(HistoryCap)[u]


(* ---------------------------------------------------------------------- *)
(* user_id is the owner of the database or holds a permission row for it *)
MayAccess(database_id, user_id) ==
  \/ database_rows[database_id].owner_id = user_id
  \/ HasPermission(database_id, user_id)

(* C38: database access is restricted to permitted users.  Whatever the    *)
(* route, a response that carries the schema, rows or file of a database   *)
(* goes to a caller who is its owner or holds a permission row for it; a   *)
(* write statement runs on a database only for such a caller; and a        *)
(* database row is removed only by a call of its owner.                    *)
C38_Original ==
  [][/\ \A id \in response'.data :
          response'.status = 200 => MayAccess(id, response'.caller)
     /\ \A id \in DOMAIN database_rows :
          IF id \in DOMAIN database_rows'
          THEN \A user_id \in database_rows'[id].written_by
                            \ database_rows[id].written_by :
                  MayAccess(id, user_id)
          ELSE response'.caller = database_rows[id].owner_id]_vars

====
